---- MODULE Spec2Model ----
(***************************************************************************)
(* Session authentication of the match-tracking dashboard                  *)
(* (streamlit_app/streamlit_app.py): the signed auth token, its restore on *)
(* a run of main(), login, logout and the replacement of db.sqlite3.       *)
(*                                                                         *)
(* Bytes are integers 0..255 (ASCII codes).  The characters of a token are *)
(* integers too: 0..63 is the position of a character in the URL-safe      *)
(* base64 alphabet, and Dot, Pad, Plus, Slash, Junk and NonAscii stand for *)
(* '.', '=', '+', '/', any other ASCII character and any non-ASCII one.    *)
(*                                                                         *)
(* What the code relies on from Streamlit and the browser is taken as the  *)
(* code states it: st.session_state lives as long as the session of one    *)
(* open page and a page load starts a new one; st.context.headers holds    *)
(* the Cookie header of the request that opened the session; the scripts   *)
(* of _set_cookie_js and _delete_cookie_js change the browser's cookies;   *)
(* a write of the store by SQLite sets the mtime of db.sqlite3.            *)
(*                                                                         *)
(* Three specifications: Spec is the life of a login in one browser;       *)
(* SpecRequest is one request with any cookie at any instant against any   *)
(* data file; SpecCodec is the token codec on its own.                     *)
(***************************************************************************)
EXTENDS Integers, Sequences, FiniteSets, TLC

-----------------------------------------------------------------------------
(* Characters of a token outside the URL-safe base64 alphabet.             *)
Dot == 64
Pad == 65
Plus == 66
Slash == 67
Junk == 68
NonAscii == 69

Chars == 0..69

(* ASCII text used by the payload.                                         *)
K_user_id == <<117, 115, 101, 114, 95, 105, 100>>
K_username == <<117, 115, 101, 114, 110, 97, 109, 101>>
K_exp == <<101, 120, 112>>
K_db_fp == <<100, 98, 95, 102, 112>>
K_size == <<115, 105, 122, 101>>
K_mtime == <<109, 116, 105, 109, 101>>
T_null == <<110, 117, 108, 108>>

-----------------------------------------------------------------------------
(* JSON values.  Every value has the same record shape, so that any two    *)
(* can be compared: t is the kind, n a number's integer part, s a string's *)
(* bytes (a float's fraction digits), m an object's members or an array's  *)
(* elements, each [k |-> key bytes, v |-> value].                          *)
JNone == [t |-> "none", n |-> 0, s |-> <<>>, m |-> <<>>]
JRaise == [t |-> "raise", n |-> 0, s |-> <<>>, m |-> <<>>]
JInt(n) == [t |-> "int", n |-> n, s |-> <<>>, m |-> <<>>]
JFloat(n) == [t |-> "float", n |-> n, s |-> <<48>>, m |-> <<>>]
JStr(s) == [t |-> "str", n |-> 0, s |-> s, m |-> <<>>]
JObj(m) == [t |-> "obj", n |-> 0, s |-> <<>>, m |-> m]
JArr(m) == [t |-> "arr", n |-> 0, s |-> <<>>, m |-> m]
Member(k, v) == [k |-> k, v |-> v]

IsDigit(c) == c >= 48 /\ c <= 57

RECURSIVE Digits(_)
Digits(n) == IF n < 10 THEN <<48 + n>> ELSE Digits(n \div 10) \o <<48 + (n % 10)>>

(* json.dumps(payload, separators=(",", ":"), ensure_ascii=False) followed *)
(* by .encode("utf-8"), for values whose strings are plain ASCII letters.  *)
RECURSIVE JsonDumps(_), DumpMembers(_, _), DumpElems(_, _)
JsonDumps(v) ==
  CASE v.t = "int" -> Digits(v.n)
    [] v.t = "float" -> Digits(v.n) \o <<46>> \o v.s
    [] v.t = "str" -> <<34>> \o v.s \o <<34>>
    [] v.t = "obj" -> <<123>> \o DumpMembers(v.m, 1) \o <<125>>
    [] v.t = "arr" -> <<91>> \o DumpElems(v.m, 1) \o <<93>>
    [] OTHER -> T_null
DumpMembers(m, i) ==
  IF i > Len(m) THEN <<>>
  ELSE (IF i > 1 THEN <<44>> ELSE <<>>)
       \o <<34>> \o m[i].k \o <<34, 58>> \o JsonDumps(m[i].v)
       \o DumpMembers(m, i + 1)
DumpElems(m, i) ==
  IF i > Len(m) THEN <<>>
  ELSE (IF i > 1 THEN <<44>> ELSE <<>>) \o JsonDumps(m[i].v) \o DumpElems(m, i + 1)

(* json.loads(payload_json.decode("utf-8")) for the texts JsonDumps        *)
(* writes: numbers without sign or exponent, strings without escapes,      *)
(* objects, arrays and null, without white space.  Any other text raises.  *)
ParseFail == [ok |-> FALSE, v |-> JNone, i |-> 0]
ParseOk(v, i) == [ok |-> TRUE, v |-> v, i |-> i]

RECURSIVE ScanDigits(_, _)
ScanDigits(b, i) == IF i <= Len(b) /\ IsDigit(b[i]) THEN ScanDigits(b, i + 1) ELSE i

RECURSIVE NumVal(_, _, _)
NumVal(b, i, j) == IF j <= i THEN 0 ELSE NumVal(b, i, j - 1) * 10 + (b[j - 1] - 48)

RECURSIVE ScanStr(_, _)
ScanStr(b, i) ==
  IF i > Len(b) THEN 0
  ELSE IF b[i] = 34 THEN i
  ELSE IF b[i] = 92 \/ b[i] < 32 \/ b[i] > 127 THEN 0
  ELSE ScanStr(b, i + 1)

RECURSIVE ParseValue(_, _), ParseMembers(_, _, _), ParseElems(_, _, _)
ParseValue(b, i) ==
  IF i > Len(b) THEN ParseFail
  ELSE IF IsDigit(b[i]) THEN
    LET j == ScanDigits(b, i) IN
    IF b[i] = 48 /\ j > i + 1 THEN ParseFail
    ELSE IF j <= Len(b) /\ b[j] = 46 THEN
      LET k == ScanDigits(b, j + 1) IN
      IF k = j + 1 THEN ParseFail
      ELSE ParseOk([t |-> "float", n |-> NumVal(b, i, j),
                    s |-> SubSeq(b, j + 1, k - 1), m |-> <<>>], k)
    ELSE ParseOk(JInt(NumVal(b, i, j)), j)
  ELSE IF b[i] = 34 THEN
    LET j == ScanStr(b, i + 1) IN
    IF j = 0 THEN ParseFail ELSE ParseOk(JStr(SubSeq(b, i + 1, j - 1)), j + 1)
  ELSE IF b[i] = 123 THEN
    IF i + 1 <= Len(b) /\ b[i + 1] = 125 THEN ParseOk(JObj(<<>>), i + 2)
    ELSE ParseMembers(b, i + 1, <<>>)
  ELSE IF b[i] = 91 THEN
    IF i + 1 <= Len(b) /\ b[i + 1] = 93 THEN ParseOk(JArr(<<>>), i + 2)
    ELSE ParseElems(b, i + 1, <<>>)
  ELSE IF i + 3 <= Len(b) /\ SubSeq(b, i, i + 3) = T_null THEN ParseOk(JNone, i + 4)
  ELSE ParseFail
ParseMembers(b, i, acc) ==
  IF i > Len(b) \/ b[i] # 34 THEN ParseFail
  ELSE LET j == ScanStr(b, i + 1) IN
    IF j = 0 \/ j + 1 > Len(b) \/ b[j + 1] # 58 THEN ParseFail
    ELSE LET r == ParseValue(b, j + 2) IN
      IF ~r.ok \/ r.i > Len(b) THEN ParseFail
      ELSE LET acc2 == Append(acc, Member(SubSeq(b, i + 1, j - 1), r.v)) IN
        IF b[r.i] = 125 THEN ParseOk(JObj(acc2), r.i + 1)
        ELSE IF b[r.i] = 44 THEN ParseMembers(b, r.i + 1, acc2)
        ELSE ParseFail
ParseElems(b, i, acc) ==
  LET r == ParseValue(b, i) IN
  IF ~r.ok \/ r.i > Len(b) THEN ParseFail
  ELSE LET acc2 == Append(acc, Member(<<>>, r.v)) IN
    IF b[r.i] = 93 THEN ParseOk(JArr(acc2), r.i + 1)
    ELSE IF b[r.i] = 44 THEN ParseElems(b, r.i + 1, acc2)
    ELSE ParseFail

WholeText(r, n) == IF r.ok /\ r.i = n + 1 THEN r.v ELSE JRaise

JsonLoads(b) == WholeText(ParseValue(b, 1), Len(b))

(* dict.get(key): the value of the last member with that key, else None.   *)
RECURSIVE GetFrom(_, _, _)
GetFrom(m, key, i) ==
  IF i = 0 THEN JNone
  ELSE IF m[i].k = key THEN m[i].v
  ELSE GetFrom(m, key, i - 1)
Get(obj, key) == IF obj.t = "obj" THEN GetFrom(obj.m, key, Len(obj.m)) ELSE JNone

Keys(obj) == {obj.m[i].k : i \in 1..Len(obj.m)}

-----------------------------------------------------------------------------
(* base64.  A decoder's result is [ok, v]: ok = FALSE is a raised          *)
(* exception (binascii.Error, UnicodeEncodeError).                         *)
BytesOk(v) == [ok |-> TRUE, v |-> v]
BytesRaise == [ok |-> FALSE, v |-> <<>>]

(* base64.b64encode: three bytes to four characters, '=' for the missing  *)
(* bytes of the last group.  At(raw, i) is byte i, 0 past the end.         *)
At(raw, i) == IF i <= Len(raw) THEN raw[i] ELSE 0

B64Char(raw, k) ==
  LET g == 3 * ((k - 1) \div 4)
      r == (k - 1) % 4
  IN IF r = 0 THEN At(raw, g + 1) \div 4
     ELSE IF r = 1 THEN (At(raw, g + 1) % 4) * 16 + At(raw, g + 2) \div 16
     ELSE IF r = 2 THEN
       (IF g + 2 > Len(raw) THEN Pad
        ELSE (At(raw, g + 2) % 16) * 4 + At(raw, g + 3) \div 64)
     ELSE (IF g + 3 > Len(raw) THEN Pad ELSE At(raw, g + 3) % 64)

B64Encode(raw) == [k \in 1..(4 * ((Len(raw) + 2) \div 3)) |-> B64Char(raw, k)]

(* str.rstrip("=")                                                        *)
RECURSIVE RStripPad(_)
RStripPad(c) ==
  IF Len(c) > 0 /\ c[Len(c)] = Pad THEN RStripPad(SubSeq(c, 1, Len(c) - 1)) ELSE c

_b64url_encode(raw) == RStripPad(B64Encode(raw))

(* The value of a character in the decoder's table after urlsafe's         *)
(* translation of '-' and '_' to '+' and '/': '+' and '/' themselves keep  *)
(* the values 62 and 63; -1 is a character the table does not hold.        *)
TableValue(ch) ==
  IF ch >= 0 /\ ch <= 63 THEN ch
  ELSE IF ch = Plus THEN 62
  ELSE IF ch = Slash THEN 63
  ELSE 0 - 1

(* binascii.a2b_base64 without strict mode.  Characters outside the table *)
(* are skipped.  A '=' met after two or three characters of a quad counts  *)
(* as padding, and the input ends at the '=' that completes the quad; a    *)
(* '=' met earlier in a quad is skipped.  An unfinished quad at the end of *)
(* the input raises binascii.Error.                                        *)
InTable(ch) == TableValue(ch) >= 0
Significant(ch) == InTable(ch) \/ ch = Pad

(* Among the first i characters of f: how many are of the table, and the   *)
(* position of the last of them (0 when there is none).                    *)
TableCount(f, i) == Cardinality({j \in 1..i : f[j] # Pad})
LastOfTable(f, i) ==
  IF \E j \in 1..i : f[j] # Pad
  THEN CHOOSE j \in 1..i : f[j] # Pad /\ \A k \in (j + 1)..i : f[k] = Pad
  ELSE 0

(* The positions of a '=' that completes a quad.                           *)
PadStops(f) ==
  {i \in 1..Len(f) :
     /\ f[i] = Pad
     /\ TableCount(f, i) % 4 >= 2
     /\ (TableCount(f, i) % 4) + (i - LastOfTable(f, i)) >= 4}

Least(S) == CHOOSE i \in S : \A j \in S : i <= j

(* Byte k of the quads of table characters vals.                           *)
QuadByte(vals, k) ==
  LET g == 4 * ((k - 1) \div 3)
      r == (k - 1) % 3
  IN IF r = 0 THEN TableValue(vals[g + 1]) * 4 + TableValue(vals[g + 2]) \div 16
     ELSE IF r = 1
     THEN (TableValue(vals[g + 2]) % 16) * 16 + TableValue(vals[g + 3]) \div 4
     ELSE (TableValue(vals[g + 3]) % 4) * 64 + TableValue(vals[g + 4])

A2BQuads(vals, padded) ==
  LET n == Len(vals)
      nbytes == 3 * (n \div 4) + (IF n % 4 = 0 THEN 0 ELSE (n % 4) - 1)
  IN IF ~padded /\ n % 4 # 0 THEN BytesRaise
     ELSE BytesOk([k \in 1..nbytes |-> QuadByte(vals, k)])

A2BUpTo(f, stops) ==
  A2BQuads(SelectSeq(SubSeq(f, 1, IF stops = {} THEN Len(f) ELSE Least(stops)), InTable),
           stops # {})

A2BSignificant(f) == A2BUpTo(f, PadStops(f))

A2B(c) == A2BSignificant(SelectSeq(c, Significant))

HasNonAscii(c) == \E i \in 1..Len(c) : c[i] = NonAscii

PadFor(n) ==
  LET k == (4 - (n % 4)) % 4 IN [i \in 1..k |-> Pad]

_b64url_decode(raw) ==
  IF HasNonAscii(raw) THEN BytesRaise
  ELSE A2B(raw \o PadFor(Len(raw)))

-----------------------------------------------------------------------------
(* hmac.new(secret, msg, hashlib.sha256).digest().  HMAC pads a key that   *)
(* is shorter than the block of the hash with zero bytes (the secrets of   *)
(* the model are shorter; a longer key is hashed first).  Beyond that the  *)
(* digest is taken as an ideal MAC: it determines the padded key and the   *)
(* message (no collisions), written as the significant bytes of the key,   *)
(* preceded by their number, and the message.                              *)
BlockSize == 64
HmacKey(secret) == secret \o [i \in 1..(BlockSize - Len(secret)) |-> 0]
KeyLength(key) ==
  IF \A i \in 1..Len(key) : key[i] = 0 THEN 0
  ELSE CHOOSE i \in 1..Len(key) : key[i] # 0 /\ \A j \in (i + 1)..Len(key) : key[j] = 0
Keyed(key, n, msg) == <<n>> \o SubSeq(key, 1, n) \o msg
PaddedDigest(key, msg) == Keyed(key, KeyLength(key), msg)
HmacDigest(secret, msg) == PaddedDigest(HmacKey(secret), msg)

(* A signature that does not depend on the secret.                         *)
sign_without_secret(payload_json, secret) == _b64url_encode(HmacDigest(<<>>, payload_json))

_sign_payload(payload_json, secret) == _b64url_encode(HmacDigest(secret, payload_json))

TokenOf(payload_json, secret) ==
  _b64url_encode(payload_json) \o <<Dot>> \o _sign_payload(payload_json, secret)

_encode_auth_token(payload, secret) == TokenOf(JsonDumps(payload), secret)

(* token.split(".", 1): the position of the first '.', 0 when there is     *)
(* none (the unpacking then raises ValueError).                            *)
FirstDot(c) ==
  IF \A i \in 1..Len(c) : c[i] # Dot THEN 0
  ELSE CHOOSE i \in 1..Len(c) : c[i] = Dot /\ \A j \in 1..(i - 1) : c[j] # Dot

(* A comparison of the lengths alone.                                      *)
compare_lengths(a, b) ==
  IF HasNonAscii(a) \/ HasNonAscii(b) THEN "raise"
  ELSE IF Len(a) = Len(b) THEN "equal" ELSE "differ"

(* hmac.compare_digest on two str: TypeError when one holds a non-ASCII    *)
(* character, else equality.                                               *)
CompareDigest(a, b) ==
  IF HasNonAscii(a) \/ HasNonAscii(b) THEN "raise"
  ELSE IF a = b THEN "equal" ELSE "differ"

(* The body of the try block, statement by statement: JRaise is an         *)
(* exception leaving it.  LoadedPayload is the isinstance test on what     *)
(* json.loads gave, SignatureChecked the comparison of the signatures,     *)
(* PayloadBytes the decoding of the payload segment, SplitToken the        *)
(* unpacking of token.split(".", 1) at the first '.' d.                    *)
LoadedPayload(payload) ==
  IF payload.t = "raise" THEN JRaise
  ELSE IF payload.t # "obj" THEN JNone
  ELSE payload

SignatureChecked(cmp, payload_json) ==
  IF cmp = "raise" THEN JRaise
  ELSE IF cmp = "differ" THEN JNone
  ELSE LoadedPayload(JsonLoads(payload_json))

PayloadBytes(payload_json, s, secret) ==
  IF ~payload_json.ok THEN JRaise
  ELSE SignatureChecked(CompareDigest(_sign_payload(payload_json.v, secret), s),
                        payload_json.v)

SplitToken(token, d, secret) ==
  IF d = 0 THEN JRaise
  ELSE PayloadBytes(_b64url_decode(SubSeq(token, 1, d - 1)),
                    SubSeq(token, d + 1, Len(token)), secret)

DecodeBody(token, secret) == SplitToken(token, FirstDot(token), secret)

(* A decode whose exceptions leave it.                                     *)
decode_without_except(token, secret) == DecodeBody(token, secret)

(* try: ... except Exception: return None                                  *)
NoneIfRaised(r) == IF r.t = "raise" THEN JNone ELSE r

_decode_auth_token(token, secret) == NoneIfRaised(DecodeBody(token, secret))

-----------------------------------------------------------------------------
(* Program constants.                                                      *)
AUTH_COOKIE_NAME == "da_auth"
LAST_USER_COOKIE_NAME == "da_last_user"
AUTH_TTL_SECONDS == 12 * 60 * 60
LAST_USER_TTL_SECONDS == 30 * 24 * 60 * 60

(* Bounds of the model.  The clock counts whole seconds from 0 to          *)
(* AUTH_TTL_SECONDS + MaxSlack; db.sqlite3 has a size of 1..MaxSize units. *)
MaxSlack == 1
MaxSize == 1

MaxNow == AUTH_TTL_SECONDS + MaxSlack

(* The instants the clock takes: the first seconds, and the seconds from   *)
(* AUTH_TTL_SECONDS on.                                                    *)
Times == (0..MaxSlack) \cup (AUTH_TTL_SECONDS..MaxNow)

Browsers == {"b1", "b2"}
Active == {"b1"}

(* Values of the environment variable SETUP_TOKEN after strip(), as UTF-8  *)
(* bytes: unset or blank is <<>>.  WrongKey is a key the server never had. *)
Key == <<107>>
WrongKey == <<120>>

(* The files a user can upload as db.sqlite3: their size and the rows of   *)
(* the user table (id, username) they hold.  A and B have the same size.   *)
DbImages ==
  { [image |-> "A", size |-> 1,
     users |-> {[id |-> 1, username |-> <<97>>]}],
    [image |-> "B", size |-> 1,
     users |-> {[id |-> 1, username |-> <<98>>], [id |-> 2, username |-> <<99>>]}] }

NoFile == [exists |-> FALSE, image |-> "none", size |-> 0, mtime |-> 0, users |-> {}]
FileOf(img, t) ==
  [exists |-> TRUE, image |-> img.image, size |-> img.size, mtime |-> t, users |-> img.users]

(* An identity that keeps the name and not the id.                         *)
auth_state_first_user(uid, uname) == [user_id |-> 1, username |-> uname]

(* st.session_state["auth"]: NoAuth is the key being absent.               *)
NoAuth == [user_id |-> 0 - 1, username |-> <<>>]
AuthState(uid, uname) == [user_id |-> uid, username |-> uname]

VARIABLES
  now,      \* time.time(), in whole seconds
  env,      \* os.environ: SETUP_TOKEN (stripped) and USE_POSTGRES (as a flag)
  dbfile,   \* db.sqlite3: existence, os.stat size and mtime, the user table
  jar,      \* per browser, its cookies da_auth and da_last_user
  sess,     \* per browser, the session of its open page: st.session_state
            \* (auth, sqlite_restore_done), the Cookie header of the request
            \* that opened the session (hdr: da_auth, hint: da_last_user),
            \* and a requested rerun
  minted,   \* per browser, the token its last login issued, what went into
            \* it, the file it was issued on, and whether db.sqlite3 was
            \* uploaded or lost since (history)
  revoked,  \* per browser, _logout ran and no login since (history)
  last,     \* the last step: its operation, browser and what restore did
  cpc, cpayload, csecret, ctoken, cpresented, cresult,
            \* the codec on its own: see SpecCodec
  store,    \* the tables Deck, OpponentDeck and Result, each in id order
  slast     \* the last operation on the store: its user, what it was given,
            \* the tables before it, and what it returned (history)

vars == <<now, env, dbfile, jar, sess, minted, revoked, last,
          cpc, cpayload, csecret, ctoken, cpresented, cresult, store, slast>>
sysvars == <<now, env, dbfile, jar, sess, minted, revoked, last>>
codecvars == <<cpc, cpayload, csecret, ctoken, cpresented, cresult>>
storevars == <<store, slast>>

(* The tables of a fresh database, and no operation on them yet.           *)
EmptyStore == [decks |-> <<>>, opps |-> <<>>, results |-> <<>>]
NoArchive == [names |-> {}, decks |-> <<>>, opps |-> <<>>, results |-> <<>>]
NoCounters == [decks |-> 0 - 1, opponent_decks |-> 0 - 1, results |-> 0 - 1]
NoStoreOp ==
  [op |-> "none", user |-> 0, purge |-> FALSE, arch |-> NoArchive,
   before |-> EmptyStore, once |-> EmptyStore, n |-> 0, done |-> 0,
   counters |-> NoCounters, raised |-> FALSE, seq |-> 0]
StoreIdle == store = EmptyStore /\ slast = NoStoreOp

-----------------------------------------------------------------------------
(* _cookie_secret_bytes(): <<>> stands for None.                           *)
_cookie_secret_bytes == env.SETUP_TOKEN

(* The payload _login_ui builds.  exp is the float time.time() + TTL.      *)
LoginPayload(uid, uname, exp, size, mtime) ==
  JObj(<<Member(K_user_id, JInt(uid)),
         Member(K_username, JStr(uname)),
         Member(K_exp, JFloat(exp)),
         Member(K_db_fp, JObj(<<Member(K_size, JInt(size)), Member(K_mtime, JInt(mtime))>>))>>)

IsNumber(v) == v.t \in {"int", "float"}
NumEq(v, n) ==
  /\ IsNumber(v)
  /\ v.n = n
  /\ \A i \in 1..Len(v.s) : v.s[i] = 48

(* A fingerprint comparison that never finds the file unchanged.           *)
fp_never_equal(v, size, mtime) == FALSE

(* payload.get("db_fp") == {"size": size, "mtime": mtime}                  *)
FpEq(v, size, mtime) ==
  /\ v.t = "obj"
  /\ Keys(v) = {K_size, K_mtime}
  /\ NumEq(Get(v, K_size), size)
  /\ NumEq(Get(v, K_mtime), mtime)

(* The Cookie header is input from the client, which is free to send any   *)
(* value: the values below are a token t that a login issued, as it is or  *)
(* altered, and tokens made outside the program.                           *)
PayloadSegment(t) == SubSeq(t, 1, FirstDot(t) - 1)
NextChar(c) == (c + 1) % 64

SignedWith(payload) == _encode_auth_token(payload, Key)

ForgeKinds ==
  {"replay", "sig_char", "no_dot", "cut", "non_ascii", "signed_array", "outside"}

ForgedToken(kind, t) ==
  CASE kind = "replay" -> t
    [] kind = "sig_char" -> [t EXCEPT ![Len(t)] = NextChar(t[Len(t)])]
    [] kind = "no_dot" -> PayloadSegment(t)
    [] kind = "cut" -> SubSeq(t, 3, Len(t))
    [] kind = "non_ascii" -> <<NonAscii>> \o t
    [] kind = "signed_array" -> SignedWith(JArr(<<>>))
    [] OTHER -> SignedWith(LoginPayload(1, <<97>>, AUTH_TTL_SECONDS, 1, 0))

(* The tokens a login of the model can issue, by the values that go into   *)
(* the payload, and the decoding of the cookie values a client of the      *)
(* model presents: both are computed once, by the functions above.         *)
MintKeys ==
  UNION { { <<u.id, u.username, t + AUTH_TTL_SECONDS, size, mtime>> :
              u \in UNION {img.users : img \in DbImages},
              size \in 1..MaxSize, mtime \in {m \in Times : m <= t} } : t \in Times }
MintedToken ==
  [k \in MintKeys |-> _encode_auth_token(LoginPayload(k[1], k[2], k[3], k[4], k[5]), Key)]
IssuedTokens == {MintedToken[k] : k \in MintKeys}
ForgedOf == [kind \in ForgeKinds |-> [t \in IssuedTokens |-> ForgedToken(kind, t)]]
PresentedTokens == {ForgedOf[kind][t] : kind \in ForgeKinds, t \in IssuedTokens}
DecodedToken == [t \in PresentedTokens |-> _decode_auth_token(t, Key)]

forged_token_once(kind, t) ==
  IF t \in IssuedTokens THEN ForgedOf[kind][t] ELSE ForgedToken(kind, t)

encode_auth_token_once(uid, uname, exp, size, mtime, secret) ==
  IF secret = Key /\ <<uid, uname, exp, size, mtime>> \in MintKeys
  THEN MintedToken[<<uid, uname, exp, size, mtime>>]
  ELSE _encode_auth_token(LoginPayload(uid, uname, exp, size, mtime), secret)

decode_auth_token_once(token, secret) ==
  IF secret = Key /\ token \in PresentedTokens
  THEN DecodedToken[token]
  ELSE _decode_auth_token(token, secret)

(* A reader that takes the cookie da_last_user whatever the name.          *)
get_last_user_cookie(s, name) == s.hint

(* _get_cookie_value(name) in session s: the value of the cookie of that   *)
(* name in the Cookie header of the request that opened the session, <<>>  *)
(* (None) when the header has none.  A header holds the cookies da_auth    *)
(* (s.hdr) and da_last_user (s.hint).                                      *)
_get_cookie_value(s, name) ==
  IF name = AUTH_COOKIE_NAME THEN s.hdr
  ELSE IF name = LAST_USER_COOKIE_NAME THEN s.hint
  ELSE <<>>

(* A restore that goes on without a secret.                                *)
ReturnWithoutSecret(s, secret, payload) ==
  LET exp == Get(payload, K_exp)
      uid == Get(payload, K_user_id)
      uname == Get(payload, K_username)
  IN IF s.auth # NoAuth THEN "has_auth"
     ELSE IF _get_cookie_value(s, AUTH_COOKIE_NAME) = <<>> THEN "no_cookie"
     ELSE IF payload.t = "raise" THEN "raise"
     ELSE IF payload.t # "obj" \/ payload.m = <<>> THEN "bad_token"
     ELSE IF ~IsNumber(exp) THEN "bad_exp"
     ELSE IF now > exp.n THEN "expired"
     ELSE IF ~dbfile.exists THEN "no_file"
     ELSE IF ~FpEq(Get(payload, K_db_fp), dbfile.size, dbfile.mtime) THEN "fp_mismatch"
     ELSE IF uid.t # "int" \/ uname.t # "str" \/ uname.s = <<>> THEN "bad_identity"
     ELSE "ok"

(* A restore that turns a token away from the instant exp on.              *)
ReturnStrictExpiry(s, secret, payload) ==
  LET exp == Get(payload, K_exp)
      uid == Get(payload, K_user_id)
      uname == Get(payload, K_username)
  IN IF s.auth # NoAuth THEN "has_auth"
     ELSE IF secret = <<>> THEN "no_secret"
     ELSE IF _get_cookie_value(s, AUTH_COOKIE_NAME) = <<>> THEN "no_cookie"
     ELSE IF payload.t = "raise" THEN "raise"
     ELSE IF payload.t # "obj" \/ payload.m = <<>> THEN "bad_token"
     ELSE IF ~IsNumber(exp) THEN "bad_exp"
     ELSE IF now >= exp.n THEN "expired"
     ELSE IF ~dbfile.exists THEN "no_file"
     ELSE IF ~FpEq(Get(payload, K_db_fp), dbfile.size, dbfile.mtime) THEN "fp_mismatch"
     ELSE IF uid.t # "int" \/ uname.t # "str" \/ uname.s = <<>> THEN "bad_identity"
     ELSE "ok"

(* A restore that does not look at the identity the session holds.         *)
ReturnIgnoringSession(s, secret, payload) ==
  LET exp == Get(payload, K_exp)
      uid == Get(payload, K_user_id)
      uname == Get(payload, K_username)
  IN IF secret = <<>> THEN "no_secret"
     ELSE IF _get_cookie_value(s, AUTH_COOKIE_NAME) = <<>> THEN "no_cookie"
     ELSE IF payload.t = "raise" THEN "raise"
     ELSE IF payload.t # "obj" \/ payload.m = <<>> THEN "bad_token"
     ELSE IF ~IsNumber(exp) THEN "bad_exp"
     ELSE IF now > exp.n THEN "expired"
     ELSE IF ~dbfile.exists THEN "no_file"
     ELSE IF ~FpEq(Get(payload, K_db_fp), dbfile.size, dbfile.mtime) THEN "fp_mismatch"
     ELSE IF uid.t # "int" \/ uname.t # "str" \/ uname.s = <<>> THEN "bad_identity"
     ELSE "ok"

(* _restore_auth_from_cookie_if_possible() on session s, from the secret   *)
(* and the decoded payload it works with.  RestoreReturn is the return it  *)
(* takes: "ok" is the call of _set_auth_state, "raise" an exception that   *)
(* leaves the function.  Restored is the session it leaves.                *)
RestoreReturn(s, secret, payload) ==
  LET exp == Get(payload, K_exp)
      uid == Get(payload, K_user_id)
      uname == Get(payload, K_username)
  IN IF s.auth # NoAuth THEN "has_auth"
     ELSE IF secret = <<>> THEN "no_secret"
     ELSE IF _get_cookie_value(s, AUTH_COOKIE_NAME) = <<>> THEN "no_cookie"
     ELSE IF payload.t = "raise" THEN "raise"
     ELSE IF payload.t # "obj" \/ payload.m = <<>> THEN "bad_token"
     ELSE IF ~IsNumber(exp) THEN "bad_exp"
     ELSE IF now > exp.n THEN "expired"
     ELSE IF ~dbfile.exists THEN "no_file"
     ELSE IF ~FpEq(Get(payload, K_db_fp), dbfile.size, dbfile.mtime) THEN "fp_mismatch"
     ELSE IF uid.t # "int" \/ uname.t # "str" \/ uname.s = <<>> THEN "bad_identity"
     ELSE "ok"

Restored(s, why, payload) ==
  [why |-> why,
   sess |-> IF why = "ok"
            THEN [s EXCEPT !.auth = AuthState(Get(payload, K_user_id).n,
                                              Get(payload, K_username).s)]
            ELSE s]

RestoreFrom(s, secret, payload) == Restored(s, RestoreReturn(s, secret, payload), payload)

(* Variants of the restore that leave one of its checks out: the claims    *)
(* about that check must fail with them.                                   *)
ReturnWithoutFingerprint(s, secret, payload) ==
  LET exp == Get(payload, K_exp)
      uid == Get(payload, K_user_id)
      uname == Get(payload, K_username)
  IN IF s.auth # NoAuth THEN "has_auth"
     ELSE IF secret = <<>> THEN "no_secret"
     ELSE IF _get_cookie_value(s, AUTH_COOKIE_NAME) = <<>> THEN "no_cookie"
     ELSE IF payload.t = "raise" THEN "raise"
     ELSE IF payload.t # "obj" \/ payload.m = <<>> THEN "bad_token"
     ELSE IF ~IsNumber(exp) THEN "bad_exp"
     ELSE IF now > exp.n THEN "expired"
     ELSE IF ~dbfile.exists THEN "no_file"
     ELSE IF uid.t # "int" \/ uname.t # "str" \/ uname.s = <<>> THEN "bad_identity"
     ELSE "ok"

ReturnWithoutExpiry(s, secret, payload) ==
  LET exp == Get(payload, K_exp)
      uid == Get(payload, K_user_id)
      uname == Get(payload, K_username)
  IN IF s.auth # NoAuth THEN "has_auth"
     ELSE IF secret = <<>> THEN "no_secret"
     ELSE IF _get_cookie_value(s, AUTH_COOKIE_NAME) = <<>> THEN "no_cookie"
     ELSE IF payload.t = "raise" THEN "raise"
     ELSE IF payload.t # "obj" \/ payload.m = <<>> THEN "bad_token"
     ELSE IF ~IsNumber(exp) THEN "bad_exp"
     ELSE IF ~dbfile.exists THEN "no_file"
     ELSE IF ~FpEq(Get(payload, K_db_fp), dbfile.size, dbfile.mtime) THEN "fp_mismatch"
     ELSE IF uid.t # "int" \/ uname.t # "str" \/ uname.s = <<>> THEN "bad_identity"
     ELSE "ok"

restore_without_fingerprint(s) ==
  Restored(s, ReturnWithoutFingerprint(s, _cookie_secret_bytes,
                                        decode_auth_token_once(_get_cookie_value(s, AUTH_COOKIE_NAME),
                                        _cookie_secret_bytes)),
           decode_auth_token_once(_get_cookie_value(s, AUTH_COOKIE_NAME),
                                        _cookie_secret_bytes))

restore_without_expiry(s) ==
  Restored(s, ReturnWithoutExpiry(s, _cookie_secret_bytes,
                                   decode_auth_token_once(_get_cookie_value(s, AUTH_COOKIE_NAME),
                                        _cookie_secret_bytes)),
           decode_auth_token_once(_get_cookie_value(s, AUTH_COOKIE_NAME),
                                        _cookie_secret_bytes))

_restore_auth_from_cookie_if_possible(s) ==
  RestoreFrom(s, _cookie_secret_bytes, decode_auth_token_once(_get_cookie_value(s, AUTH_COOKIE_NAME),
                                        _cookie_secret_bytes))

(* A logout that leaves the cookie in place.                               *)
logout_keeping_cookie(s, j) == [sess |-> [s EXCEPT !.auth = NoAuth], jar |-> j]

(* _logout(): pops "auth" and has the browser erase da_auth.               *)
_logout(s, j) ==
  [sess |-> [s EXCEPT !.auth = NoAuth], jar |-> [j EXCEPT !.da_auth = <<>>, !.auth_until = 0]]

(* _get_user(user_id) is not None                                          *)
UserExists(uid) == \E u \in dbfile.users : u.id = uid

(* The Cookie header of a request: a cookie is sent until its max-age has  *)
(* passed.                                                                 *)
CookieSent(j) == IF j.da_auth # <<>> /\ now <= j.auth_until THEN j.da_auth ELSE <<>>

(* The cookie da_last_user as the browser sends it: str(int(user_id)), set  *)
(* for 30 days, which no behaviour of the model outlasts.                  *)
LastUserSent(j) == IF j.da_last_user = 0 THEN <<>> ELSE Digits(j.da_last_user)

FreshSession(j) ==
  [auth |-> NoAuth, hdr |-> CookieSent(j), hint |-> LastUserSent(j),
   rerun |-> FALSE, sqlite_restore_done |-> FALSE]

(* What a step records of the run of main() it made: the operation, the   *)
(* return the restore r took, the identity of the session after it,        *)
(* whether it left the session s0 as it was, and whether _logout ran.      *)
Ran(op, b, s0, r, lo) ==
  [op |-> op, b |-> b, why |-> r.why, auth |-> r.sess.auth, kept |-> r.sess = s0,
   logout |-> lo]
NoRun(op, b) ==
  [op |-> op, b |-> b, why |-> "none", auth |-> NoAuth, kept |-> TRUE, logout |-> FALSE]

(* A page part that renders the page for whatever identity it finds.      *)
page_part_without_ensure(s1, j) ==
  IF s1.auth = NoAuth
  THEN [sess |-> [s1 EXCEPT !.sqlite_restore_done = FALSE, !.rerun = FALSE],
        jar |-> j, logout |-> FALSE]
  ELSE [sess |-> [s1 EXCEPT !.rerun = FALSE], jar |-> j, logout |-> FALSE]

-----------------------------------------------------------------------------
(* The part of main() after the restore when no button is pressed: the     *)
(* login screen for an anonymous session (_login_ui pops the flag          *)
(* sqlite_restore_done), else _ensure_user(), which logs out an identity   *)
(* whose user the store does not hold and asks for a rerun.                *)
PagePart(s1, j) ==
  IF s1.auth = NoAuth
  THEN [sess |-> [s1 EXCEPT !.sqlite_restore_done = FALSE, !.rerun = FALSE],
        jar |-> j, logout |-> FALSE]
  ELSE IF UserExists(s1.auth.user_id)
  THEN [sess |-> [s1 EXCEPT !.rerun = FALSE], jar |-> j, logout |-> FALSE]
  ELSE [sess |-> [_logout(s1, j).sess EXCEPT !.rerun = TRUE],
        jar |-> _logout(s1, j).jar, logout |-> TRUE]

(* A run of main() in session s0 of browser b with no button pressed.      *)
RunMain(op, b, s0) ==
  \E r1 \in {_restore_auth_from_cookie_if_possible(s0)} :
    \E r \in {PagePart(r1.sess, jar[b])} :
      /\ sess' = [sess EXCEPT ![b] = r.sess]
      /\ jar' = [jar EXCEPT ![b] = r.jar]
      /\ revoked' = [revoked EXCEPT ![b] = revoked[b] \/ r.logout]
      /\ last' = Ran(op, b, s0, r1, r.logout)

(* The browser opens or reloads the page: a new session with an empty      *)
(* session_state, whose request carries the browser's cookies.             *)
PageLoad(b) ==
  /\ RunMain("PageLoad", b, FreshSession(jar[b]))
  /\ UNCHANGED <<now, env, dbfile, minted, codecvars, storevars>>

(* Streamlit runs main() again in the same session: after st.rerun(), or   *)
(* on any widget change.                                                   *)
Rerun(b) ==
  /\ RunMain("Rerun", b, sess[b])
  /\ UNCHANGED <<now, env, dbfile, minted, codecvars, storevars>>

(* A token check that lets every typed token pass.                         *)
token_any(token_in) == TRUE

(* _login_ui: token_ok                                                     *)
TokenOk(token_in) == env.SETUP_TOKEN # <<>> /\ token_in = env.SETUP_TOKEN

(* The button "ログイン" of _login_ui, pressed for user u with token_in    *)
(* typed into the SETUP_TOKEN field.                                       *)
ClickLogin(b, u, token_in) ==
  LET s0 == sess[b]
      secret == _cookie_secret_bytes
      exp == now + AUTH_TTL_SECONDS
  IN /\ ~s0.rerun
     /\ s0.auth = NoAuth
     /\ dbfile.exists
     /\ ~env.USE_POSTGRES
     /\ TokenOk(token_in)
     /\ u \in dbfile.users
     /\ \E r1 \in {_restore_auth_from_cookie_if_possible(s0)} :
           \E token \in {encode_auth_token_once(u.id, u.username, exp,
                                                dbfile.size, dbfile.mtime, secret)} :
        LET s1 == r1.sess IN
        /\ s1.auth = NoAuth
        /\ sess' = [sess EXCEPT ![b] = [s1 EXCEPT !.auth = AuthState(u.id, u.username),
                                                  !.sqlite_restore_done = FALSE,
                                                  !.rerun = TRUE]]
        /\ IF secret # <<>>
           THEN /\ jar' = [jar EXCEPT ![b] = [da_auth |-> token,
                                              auth_until |-> now + AUTH_TTL_SECONDS,
                                              da_last_user |-> u.id]]
                /\ minted' = [minted EXCEPT ![b] =
                                [has |-> TRUE, tok |-> token, at |-> now, exp |-> exp,
                                 user_id |-> u.id, username |-> u.username,
                                 size |-> dbfile.size, mtime |-> dbfile.mtime,
                                 image |-> dbfile.image, replaced |-> FALSE]]
           ELSE UNCHANGED <<jar, minted>>
        /\ revoked' = [revoked EXCEPT ![b] = FALSE]
        /\ last' = Ran("Login", b, s0, r1, FALSE)
        /\ UNCHANGED <<now, env, dbfile, codecvars, storevars>>

(* The button "データをアップロードしてログイン" of _login_ui with file    *)
(* img chosen: db.sqlite3 is written, then st.rerun().                     *)
ClickUpload(b, img, token_in) ==
  LET s0 == sess[b]
  IN /\ ~s0.rerun
     /\ s0.auth = NoAuth
     /\ TokenOk(token_in)
     /\ ~env.USE_POSTGRES
     /\ \E r1 \in {_restore_auth_from_cookie_if_possible(s0)} :
        LET s1 == r1.sess IN
        /\ s1.auth = NoAuth
        /\ dbfile' = FileOf(img, now)
        /\ sess' = [sess EXCEPT ![b] = [s1 EXCEPT !.sqlite_restore_done = TRUE, !.rerun = TRUE]]
        /\ minted' = [c \in Browsers |-> [minted[c] EXCEPT !.replaced = minted[c].has]]
        /\ last' = Ran("Upload", b, s0, r1, FALSE)
        /\ UNCHANGED <<now, env, jar, revoked, codecvars, storevars>>

(* The sidebar button "ログアウト": _logout(), then st.rerun().  The       *)
(* sidebar is drawn for a session that holds an identity.                  *)
ClickLogout(b) ==
  LET s0 == sess[b]
  IN /\ ~s0.rerun
     /\ s0.auth # NoAuth
     /\ \E r1 \in {_restore_auth_from_cookie_if_possible(s0)} :
           \E r \in {_logout(r1.sess, jar[b])} :
        /\ sess' = [sess EXCEPT ![b] = [r.sess EXCEPT !.rerun = TRUE]]
        /\ jar' = [jar EXCEPT ![b] = r.jar]
        /\ revoked' = [revoked EXCEPT ![b] = TRUE]
        /\ last' = Ran("Logout", b, s0, r1, TRUE)
        /\ UNCHANGED <<now, env, dbfile, minted, codecvars, storevars>>

(* An operation of a data page that writes to the store (a result saved,   *)
(* edited or deleted, a master row changed, an archive imported): SQLite   *)
(* writes db.sqlite3, which sets its mtime and may grow it.                *)
AppWrite(b, grow) ==
  LET s0 == sess[b]
  IN /\ ~s0.rerun
     /\ s0.auth # NoAuth
     /\ UserExists(s0.auth.user_id)
     /\ dbfile.size + grow <= MaxSize
     /\ \E r1 \in {_restore_auth_from_cookie_if_possible(s0)} :
        /\ dbfile' = [dbfile EXCEPT !.mtime = now, !.size = dbfile.size + grow]
        /\ sess' = [sess EXCEPT ![b] = r1.sess]
        /\ last' = Ran("AppWrite", b, s0, r1, FALSE)
        /\ UNCHANGED <<now, env, jar, minted, revoked, codecvars, storevars>>

(* Time passes, to the later instant t.                                    *)
Tick(t) ==
  /\ t > now
  /\ now' = t
  /\ last' = NoRun("Tick", "b1")
  /\ UNCHANGED <<env, dbfile, jar, sess, minted, revoked, codecvars, storevars>>

(* The host restarts the app: its file system is volatile, so db.sqlite3   *)
(* is gone, and every browser reconnects with a new session, whose first   *)
(* run of main() is pending.                                               *)
Restart ==
  /\ dbfile.exists
  /\ dbfile' = NoFile
  /\ sess' = [b \in Browsers |-> [FreshSession(jar[b]) EXCEPT !.rerun = TRUE]]
  /\ minted' = [c \in Browsers |-> [minted[c] EXCEPT !.replaced = minted[c].has]]
  /\ last' = NoRun("Restart", "b1")
  /\ UNCHANGED <<now, env, jar, revoked, codecvars, storevars>>

-----------------------------------------------------------------------------
(* A client opens the page with a request whose da_auth cookie it made     *)
(* itself, from the token issued to browser src.                           *)
PageLoadWith(b, kind, src) ==
  /\ minted[src].has \/ kind \in {"signed_array", "outside"}
  /\ RunMain("PageLoadWith", b,
             [FreshSession(jar[b]) EXCEPT !.hdr = forged_token_once(kind, minted[src].tok)])
  /\ UNCHANGED <<now, env, dbfile, minted, codecvars, storevars>>

NoMint ==
  [has |-> FALSE, tok |-> <<>>, at |-> 0, exp |-> 0, user_id |-> 0, username |-> <<>>,
   size |-> 0, mtime |-> 0, image |-> "none", replaced |-> FALSE]
NoCookies == [da_auth |-> <<>>, auth_until |-> 0, da_last_user |-> 0]

NoResult == [secret |-> <<>>, value |-> JNone]

CodecIdle ==
  /\ cpc = "off"
  /\ cpayload = JNone
  /\ csecret = <<>>
  /\ ctoken = <<>>
  /\ cpresented = <<>>
  /\ cresult = NoResult

Init ==
  /\ StoreIdle
  /\ now = 0
  /\ env \in [SETUP_TOKEN : {<<>>, Key}, USE_POSTGRES : BOOLEAN]
  /\ dbfile \in {NoFile} \cup {FileOf(img, 0) : img \in DbImages}
  /\ jar = [b \in Browsers |-> NoCookies]
  /\ sess = [b \in Browsers |-> FreshSession(NoCookies)]
  /\ minted = [b \in Browsers |-> NoMint]
  /\ revoked = [b \in Browsers |-> FALSE]
  /\ last = NoRun("Init", "b1")
  /\ CodecIdle

Next ==
  \/ \E t \in Times : Tick(t)
  \/ \E b \in Active : PageLoad(b)
  \/ \E b \in Active : Rerun(b)
  \/ \E b \in Active, token_in \in {Key, WrongKey} : \E u \in dbfile.users :
       ClickLogin(b, u, token_in)
  \/ \E b \in Active, img \in DbImages, token_in \in {Key, WrongKey} :
       ClickUpload(b, img, token_in)
  \/ \E b \in Active : ClickLogout(b)
  \/ \E b \in Active, grow \in {0, 1} : AppWrite(b, grow)
  \/ Restart

Spec == Init /\ [][Next]_vars

-----------------------------------------------------------------------------
(* The restore on its own, as a function of what it reads: a request       *)
(* arrives at any instant, with any data file in place, the secret         *)
(* configured or not, from a client that a login once issued a token to.   *)
MintOf(k) ==
  [has |-> TRUE, tok |-> MintedToken[k], at |-> k[3] - AUTH_TTL_SECONDS, exp |-> k[3],
   user_id |-> k[1], username |-> k[2], size |-> k[4], mtime |-> k[5],
   image |-> (CHOOSE img \in DbImages : \E u \in img.users : u.username = k[2]).image,
   replaced |-> FALSE]

Files ==
  {NoFile} \cup
  {[FileOf(img, t) EXCEPT !.size = z] : img \in DbImages, t \in Times, z \in 1..(MaxSize + 1)}

InitRequest ==
  /\ StoreIdle
  /\ now \in Times
  /\ env \in [SETUP_TOKEN : {<<>>, Key}, USE_POSTGRES : {FALSE}]
  /\ dbfile \in Files
  /\ jar = [b \in Browsers |-> NoCookies]
  /\ sess = [b \in Browsers |-> FreshSession(NoCookies)]
  /\ minted \in {[b \in Browsers |-> IF b \in Active THEN MintOf(k) ELSE NoMint] : k \in MintKeys}
  /\ revoked = [b \in Browsers |-> FALSE]
  /\ last = NoRun("Init", "b1")
  /\ CodecIdle

(* One request of each behaviour.                                          *)
NextRequest ==
  /\ last.op = "Init"
  /\ \E b \in Active, kind \in ForgeKinds, src \in Active : PageLoadWith(b, kind, src)

SpecRequest == InitRequest /\ [][NextRequest]_vars

-----------------------------------------------------------------------------
(* Claims about the restore, under SpecRequest.                            *)

(* The request of the last step presented the issued token unchanged, and  *)
(* the server holds the secret that signed it.                             *)
Replayed(b) ==
  /\ last.op = "PageLoadWith"
  /\ last.b = b
  /\ minted[b].has
  /\ sess[b].hdr = minted[b].tok
  /\ env.SETUP_TOKEN = Key

SameFingerprint(b) ==
  dbfile.exists /\ dbfile.size = minted[b].size /\ dbfile.mtime = minted[b].mtime

(* C1: a token issued while the data file had fingerprint F1 is rejected   *)
(* by the restore (the session stays anonymous) when the file's current    *)
(* fingerprint differs from F1, at every time up to the token's exp and    *)
(* with a valid signature.                                                 *)
C1_FingerprintInvalidation ==
  \A b \in Active :
    (Replayed(b) /\ now <= minted[b].exp /\ dbfile.exists /\ ~SameFingerprint(b))
    => (last.why = "fp_mismatch" /\ last.auth = NoAuth /\ sess[b].auth = NoAuth)

C1_Witness ==
  /\ Replayed("b1")
  /\ now <= minted["b1"].exp
  /\ dbfile.exists
  /\ dbfile.mtime = minted["b1"].mtime
  /\ dbfile.size # minted["b1"].size
  /\ last.auth = NoAuth

(* C2: a token whose exp is earlier than the current time is rejected by   *)
(* the restore (no identity is set), even with a valid signature and a     *)
(* fingerprint equal to the current one of the data file.                  *)
C2_Expiry ==
  \A b \in Active :
    (Replayed(b) /\ minted[b].exp < now)
    => (last.auth = NoAuth /\ sess[b].auth = NoAuth
        /\ (SameFingerprint(b) => last.why = "expired"))

C2_Witness ==
  /\ Replayed("b1")
  /\ minted["b1"].exp < now
  /\ SameFingerprint("b1")
  /\ last.why = "expired"
  /\ last.auth = NoAuth

(* C5: whatever makes a token fail (no '.', invalid base64, a payload that *)
(* is no record, a bad signature, expiry, a fingerprint mismatch, no       *)
(* secret configured, no data file), the decode returns None and the       *)
(* restore returns normally, no exception leaves either, and the restore   *)
(* leaves the session as it was: anonymous, no other key changed.          *)
C5_ErrorsAreValues ==
  \A b \in Active :
    (last.op = "PageLoadWith" /\ last.b = b)
    => /\ last.why # "raise"
       /\ decode_auth_token_once(sess[b].hdr, Key).t \in {"none", "obj"}
       /\ last.why # "ok" => (last.auth = NoAuth /\ last.kept)

C5_Witness ==
  /\ last.op = "PageLoadWith"
  /\ last.why = "bad_token"
  /\ last.auth = NoAuth
  /\ last.kept
  /\ env.SETUP_TOKEN = Key
  /\ sess["b1"].hdr = forged_token_once("cut", minted["b1"].tok)
  /\ DecodeBody(sess["b1"].hdr, Key).t = "raise"

(* C6: from an anonymous session, the restore with a token that has a      *)
(* valid signature under the configured secret, now <= exp and db_fp equal *)
(* to the current fingerprint sets the identity of the session to the      *)
(* user_id and username of the token's payload, and to no other.           *)
C6_ValidRestore ==
  \A b \in Active :
    (Replayed(b) /\ now <= minted[b].exp /\ SameFingerprint(b))
    => /\ last.why = "ok"
       /\ last.auth = [user_id |-> minted[b].user_id, username |-> minted[b].username]

C6_Witness ==
  /\ Replayed("b1")
  /\ now = minted["b1"].exp
  /\ SameFingerprint("b1")
  /\ minted["b1"].user_id = 2
  /\ last.auth = [user_id |-> 2, username |-> <<99>>]

-----------------------------------------------------------------------------
(* Claims about the life of a login, under Spec.                           *)

(* The identity the last login of browser b gave its session.              *)
LoggedInAs(b) == [user_id |-> minted[b].user_id, username |-> minted[b].username]

(* The token issued to b has expired, or the data file no longer has the   *)
(* fingerprint the token holds.                                            *)
Stale(b) == minted[b].has /\ (minted[b].exp < now \/ ~SameFingerprint(b))

(* C7: after a login with a configured secret at time t, every new page    *)
(* load of that browser at a time <= t + 12 hours restores the identity of *)
(* the login, whatever operations of the data pages (records saved,        *)
(* edited, deleted or imported) came in between, logout excepted.          *)
C7_LoginSurvivesReload ==
  \A b \in Active :
    (/\ last.op = "PageLoad" /\ last.b = b
     /\ minted[b].has /\ ~minted[b].replaced /\ ~revoked[b]
     /\ now <= minted[b].at + AUTH_TTL_SECONDS)
    => last.auth = LoggedInAs(b)

(* C8 as stated: the token is validated again on every run of main(), so a *)
(* client whose token has expired or whose fingerprint no longer matches   *)
(* the data file is anonymous after the next run.                          *)
C8_RevalidatedOnEveryRun ==
  \A b \in Active :
    (last.op \in {"PageLoad", "Rerun"} /\ last.b = b /\ Stale(b))
    => sess[b].auth = NoAuth

(* C8: a page load (a new session) of a browser whose token has expired or *)
(* whose fingerprint no longer matches the data file leaves the session    *)
(* anonymous; a run of main() in a session that holds an identity does not *)
(* look at the token and keeps the identity.                               *)
C8_NoStaleIdentityOnPageLoad ==
  \A b \in Active :
    /\ (last.op = "PageLoad" /\ last.b = b /\ Stale(b))
       => (last.auth = NoAuth /\ sess[b].auth = NoAuth)
    /\ (last.op = "Rerun" /\ last.b = b /\ last.why = "has_auth")
       => (last.kept /\ last.auth # NoAuth)

C8_Witness ==
  /\ last.op = "PageLoad"
  /\ Stale("b1")
  /\ now <= minted["b1"].exp
  /\ sess["b1"].hdr = minted["b1"].tok
  /\ last.why = "fp_mismatch"
  /\ sess["b1"].auth = NoAuth

(* C9: after db.sqlite3 is replaced by a different file (an upload on the  *)
(* login screen), every token issued before is rejected by the restore.    *)
C9_ReplacementInvalidates ==
  \A b \in Active :
    (/\ last.op \in {"PageLoad", "Rerun"} /\ last.b = b
     /\ minted[b].has /\ minted[b].replaced
     /\ dbfile.exists /\ dbfile.image # minted[b].image
     /\ sess[b].hdr = minted[b].tok)
    => last.why # "ok"

-----------------------------------------------------------------------------
(* The codec on its own: a payload is encoded under a secret, the token is *)
(* presented as it is or with its signature or its payload segment         *)
(* changed, and decoded.  A changed token is decoded under the secret it   *)
(* was made with, the token as it is under any secret.                     *)
CodecPayloads ==
  { JObj(<<>>),
    JObj(<<Member(K_user_id, JInt(1))>>),
    JObj(<<Member(<<97>>, JArr(<<Member(<<>>, JStr(<<98>>)), Member(<<>>, JNone)>>)),
           Member(K_exp, JFloat(2))>>) }

(* Key \o <<0>> is the key HMAC pads Key to, one byte longer.              *)
CodecSecrets == {Key, WrongKey, Key \o <<0>>}

InitCodec ==
  /\ StoreIdle
  /\ now = 0
  /\ env = [SETUP_TOKEN |-> Key, USE_POSTGRES |-> FALSE]
  /\ dbfile = NoFile
  /\ jar = [b \in Browsers |-> NoCookies]
  /\ sess = [b \in Browsers |-> FreshSession(NoCookies)]
  /\ minted = [b \in Browsers |-> NoMint]
  /\ revoked = [b \in Browsers |-> FALSE]
  /\ last = NoRun("Init", "b1")
  /\ cpc = "start"
  /\ cpayload \in CodecPayloads
  /\ csecret \in CodecSecrets
  /\ ctoken = <<>>
  /\ cpresented = <<>>
  /\ cresult = NoResult

CodecEncode ==
  /\ cpc = "start"
  /\ ctoken' = _encode_auth_token(cpayload, csecret)
  /\ cpc' = "encoded"
  /\ UNCHANGED <<sysvars, storevars, cpayload, csecret, cpresented, cresult>>

Present(token) ==
  /\ cpc = "encoded"
  /\ cpresented' = token
  /\ cpc' = "presented"
  /\ UNCHANGED <<sysvars, storevars, cpayload, csecret, ctoken, cresult>>

PresentIntact == Present(ctoken)

(* Character i of the signature segment becomes c.                         *)
TamperSignature(i, c) ==
  /\ cpc = "encoded"
  /\ i > FirstDot(ctoken)
  /\ c # ctoken[i]
  /\ Present([ctoken EXCEPT ![i] = c])

(* Character i of the payload segment becomes c, is removed, or c is put   *)
(* at the end of the payload segment.                                      *)
TamperPayload(i, c) ==
  /\ cpc = "encoded"
  /\ i < FirstDot(ctoken)
  /\ c # ctoken[i]
  /\ Present([ctoken EXCEPT ![i] = c])

CutPayload(i) ==
  /\ cpc = "encoded"
  /\ i < FirstDot(ctoken)
  /\ Present(SubSeq(ctoken, 1, i - 1) \o SubSeq(ctoken, i + 1, Len(ctoken)))

GrowPayload(c) ==
  LET d == FirstDot(ctoken)
  IN /\ cpc = "encoded"
     /\ Present(SubSeq(ctoken, 1, d - 1) \o <<c>> \o SubSeq(ctoken, d, Len(ctoken)))

CodecDecode(secret) ==
  /\ cpc = "presented"
  /\ cpresented = ctoken \/ secret = csecret
  /\ cresult' = [secret |-> secret, value |-> _decode_auth_token(cpresented, secret)]
  /\ cpc' = "decoded"
  /\ UNCHANGED <<sysvars, storevars, cpayload, csecret, ctoken, cpresented>>

NextCodec ==
  \/ CodecEncode
  \/ PresentIntact
  \/ \E i \in 1..Len(ctoken), c \in Chars : TamperSignature(i, c)
  \/ \E i \in 1..Len(ctoken), c \in Chars : TamperPayload(i, c)
  \/ \E i \in 1..Len(ctoken) : CutPayload(i)
  \/ \E c \in Chars : GrowPayload(c)
  \/ \E secret \in CodecSecrets : CodecDecode(secret)

SpecCodec == InitCodec /\ [][NextCodec]_vars

-----------------------------------------------------------------------------
(* Claims about the codec, under SpecCodec.                                *)

(* The presented token is the encoded one with one character of its        *)
(* signature segment changed.                                              *)
SignatureChanged ==
  /\ Len(cpresented) = Len(ctoken)
  /\ Cardinality({i \in 1..Len(ctoken) : cpresented[i] # ctoken[i]}) = 1
  /\ \A i \in 1..Len(ctoken) : cpresented[i] # ctoken[i] => i > FirstDot(ctoken)

(* The presented token is the encoded one with another text in front of    *)
(* the '.' and the signature, and what that text decodes to.               *)
KeptLength == Len(ctoken) - FirstDot(ctoken) + 1
PresentedSegment == SubSeq(cpresented, 1, Len(cpresented) - KeptLength)
PayloadChanged ==
  /\ cpresented # ctoken
  /\ Len(cpresented) >= KeptLength
  /\ SubSeq(cpresented, Len(cpresented) - KeptLength + 1, Len(cpresented))
       = SubSeq(ctoken, FirstDot(ctoken), Len(ctoken))
BytesAltered ==
  LET bytes == _b64url_decode(PresentedSegment)
  IN ~bytes.ok \/ bytes.v # JsonDumps(cpayload)

(* C3: for a token made by _encode_auth_token(payload, secret), a change   *)
(* of any one character of the signature segment makes                     *)
(* _decode_auth_token(token', secret) return None, and so does any change  *)
(* of the payload segment that alters the payload bytes it decodes to.     *)
C3_TamperRejection ==
  (cpc = "decoded" /\ cresult.secret = csecret)
  => /\ SignatureChanged => cresult.value = JNone
     /\ (PayloadChanged /\ BytesAltered) => cresult.value = JNone

C3_Witness ==
  /\ cpc = "decoded"
  /\ cresult.secret = csecret
  /\ cpayload = JObj(<<Member(K_user_id, JInt(1))>>)
  /\ SignatureChanged
  /\ cpresented[Len(cpresented)] = Pad
  /\ cresult.value = JNone

-----------------------------------------------------------------------------
(* Two clients.  Every browser of Browsers uses the app, on a store that   *)
(* has its secret configured and the data file A in place; the operations  *)
(* are those of Spec, without the uploads and the writes to the store.     *)
InitClients ==
  /\ StoreIdle
  /\ now = 0
  /\ env = [SETUP_TOKEN |-> Key, USE_POSTGRES |-> FALSE]
  /\ dbfile \in {FileOf(img, 0) : img \in {i \in DbImages : i.image = "A"}}
  /\ jar = [b \in Browsers |-> NoCookies]
  /\ sess = [b \in Browsers |-> FreshSession(NoCookies)]
  /\ minted = [b \in Browsers |-> NoMint]
  /\ revoked = [b \in Browsers |-> FALSE]
  /\ last = NoRun("Init", "b1")
  /\ CodecIdle

NextClients ==
  \/ \E t \in Times : Tick(t)
  \/ \E b \in Browsers : PageLoad(b)
  \/ \E b \in Browsers : Rerun(b)
  \/ \E b \in Browsers : \E u \in dbfile.users : ClickLogin(b, u, Key)
  \/ \E b \in Browsers : ClickLogout(b)
  \/ Restart

SpecClients == InitClients /\ [][NextClients]_vars

(* C11: tokens are not tracked centrally.  Each login puts its token in    *)
(* the cookie of the browser that logged in, where it stays until that     *)
(* browser logs out; and when the same user is logged in from browsers b   *)
(* and c, after a logout in c a page load of b that presents b's token,    *)
(* unexpired and with the fingerprint of the data file, is still           *)
(* authenticated by the restore as that user.                              *)
C11_NoCentralRevocation ==
  \A b \in Browsers : \A c \in Browsers \ {b} :
    /\ (minted[b].has /\ ~revoked[b]) => jar[b].da_auth = minted[b].tok
    /\ (/\ last.op = "PageLoad" /\ last.b = b
        /\ minted[b].has /\ ~revoked[b]
        /\ minted[c].has /\ revoked[c]
        /\ minted[c].user_id = minted[b].user_id
        /\ now <= minted[b].exp
        /\ SameFingerprint(b))
       => (last.why = "ok" /\ last.auth = LoggedInAs(b) /\ sess[b].auth = LoggedInAs(b))

C11_Witness ==
  /\ last.op = "PageLoad" /\ last.b = "b1"
  /\ minted["b1"].has /\ ~revoked["b1"]
  /\ minted["b2"].has /\ revoked["b2"]
  /\ minted["b2"].user_id = minted["b1"].user_id
  /\ minted["b2"].at >= minted["b1"].at
  /\ jar["b2"].da_auth = <<>>
  /\ now <= minted["b1"].exp
  /\ SameFingerprint("b1")
  /\ last.why = "ok"
  /\ sess["b1"].auth = LoggedInAs("b1")

-----------------------------------------------------------------------------
(* The configuration changes.  The app is started again with another value *)
(* of SETUP_TOKEN in its environment (tok = <<>>: unset or blank): every   *)
(* browser reconnects with a new session; db.sqlite3 stays.                *)
Reconfigure(tok) ==
  /\ tok # env.SETUP_TOKEN
  /\ env' = [env EXCEPT !.SETUP_TOKEN = tok]
  /\ sess' = [b \in Browsers |-> [FreshSession(jar[b]) EXCEPT !.rerun = TRUE]]
  /\ last' = NoRun("Reconfigure", "b1")
  /\ UNCHANGED <<now, dbfile, jar, minted, revoked, codecvars, storevars>>

(* A client opens the page with a token it signed itself with the empty    *)
(* key, for user 1 and the fingerprint the data file has.                  *)
UnkeyedToken ==
  _encode_auth_token(LoginPayload(1, <<97>>, MaxNow, dbfile.size, dbfile.mtime), <<>>)

PageLoadUnkeyed(b) ==
  /\ RunMain("PageLoadWith", b, [FreshSession(jar[b]) EXCEPT !.hdr = UnkeyedToken])
  /\ UNCHANGED <<now, env, dbfile, minted, codecvars, storevars>>

NextConfig ==
  \/ \E t \in Times : Tick(t)
  \/ \E b \in Active : PageLoad(b)
  \/ \E b \in Active : Rerun(b)
  \/ \E b \in Active, token_in \in {<<>>, Key, WrongKey} : \E u \in dbfile.users :
       ClickLogin(b, u, token_in)
  \/ \E b \in Active, kind \in ForgeKinds, src \in Active : PageLoadWith(b, kind, src)
  \/ \E b \in Active : PageLoadUnkeyed(b)
  \/ \E tok \in {<<>>, Key} : Reconfigure(tok)

SpecConfig == Init /\ [][NextConfig]_vars

(* C12: while SETUP_TOKEN is unset or blank, the step just taken is no     *)
(* login, no session holds an identity, a run of main() returns from the   *)
(* restore for want of a secret whatever cookie the request carries (a     *)
(* token issued while a secret was configured, an altered one, one signed  *)
(* with the empty key), and the only auth cookie a browser holds is one a  *)
(* login wrote under a configured secret.                                  *)
C12_AbsentSecret ==
  env.SETUP_TOKEN = <<>> =>
    /\ last.op # "Login"
    /\ \A b \in Active : sess[b].auth = NoAuth
    /\ last.op \in {"PageLoad", "Rerun", "PageLoadWith"}
       => (last.why = "no_secret" /\ last.auth = NoAuth /\ last.kept)
    /\ \A b \in Active :
         jar[b].da_auth # <<>>
         => /\ minted[b].has
            /\ jar[b].da_auth = minted[b].tok
            /\ decode_auth_token_once(minted[b].tok, Key).t = "obj"

C12_Witness ==
  /\ env.SETUP_TOKEN = <<>>
  /\ last.op = "PageLoad"
  /\ minted["b1"].has
  /\ sess["b1"].hdr = minted["b1"].tok
  /\ now <= minted["b1"].exp
  /\ SameFingerprint("b1")
  /\ last.why = "no_secret"
  /\ sess["b1"].auth = NoAuth

-----------------------------------------------------------------------------
(* The login choice.  int(last_uid_raw) for a text of ASCII digits, -1     *)
(* (None) for no cookie and for a text int() raises on; the texts of the   *)
(* model are digits, a letter and a token.                                 *)
LastUid(last_uid_raw) ==
  IF last_uid_raw # <<>> /\ \A i \in 1..Len(last_uid_raw) : IsDigit(last_uid_raw[i])
  THEN NumVal(last_uid_raw, 1, Len(last_uid_raw) + 1)
  ELSE 0 - 1

(* The user the select box of _login_ui shows first: the only user, else   *)
(* the user whose id is the one of the cookie da_last_user, else the user  *)
(* of index 0 (the users are listed by id).                                *)
FirstUser(users) == CHOOSE u \in users : \A v \in users : u.id <= v.id

PreselectedUser(users, last_uid_raw) ==
  IF Cardinality(users) = 1 THEN FirstUser(users)
  ELSE IF \E u \in users : u.id = LastUid(last_uid_raw)
  THEN CHOOSE u \in users : u.id = LastUid(last_uid_raw)
  ELSE FirstUser(users)

(* The button "ログイン" pressed with the select box left as it was shown. *)
ClickLoginPreselected(b, token_in) ==
  /\ dbfile.users # {}
  /\ ClickLogin(b, PreselectedUser(dbfile.users,
                                   _get_cookie_value(sess[b], LAST_USER_COOKIE_NAME)),
                token_in)

(* A client opens the page with cookies it set itself: da_last_user is any *)
(* of the texts below (none, the id of a user, an id no user has, a        *)
(* letter, the token issued to browser src), da_auth is absent, that token *)
(* or that token with its signature altered.                               *)
HintValues(src) == {<<>>, <<49>>, <<50>>, <<57>>, <<120>>, minted[src].tok}

AuthValue(kind, src) ==
  IF kind = "none" THEN <<>> ELSE forged_token_once(kind, minted[src].tok)

PageLoadHinted(b, hint, kind, src) ==
  /\ last.op = "Init"
  /\ minted[src].has
  /\ RunMain("PageLoadHinted", b,
             [FreshSession(jar[b]) EXCEPT !.hdr = AuthValue(kind, src), !.hint = hint])
  /\ UNCHANGED <<now, env, dbfile, minted, codecvars, storevars>>

NextHint ==
  \/ \E b \in Active, src \in Active, kind \in {"none", "replay", "sig_char"} :
       \E hint \in HintValues(src) : PageLoadHinted(b, hint, kind, src)
  \/ \E b \in Active : ClickLoginPreselected(b, Key)
  \/ \E b \in Active : last.op # "Init" /\ Rerun(b)

(* A request arrives at any instant, with or without a secret configured,  *)
(* the data file absent or written in the first seconds, from a client     *)
(* that a login at instant 0 issued a token to.                            *)
InitHint ==
  /\ StoreIdle
  /\ now \in Times
  /\ env \in [SETUP_TOKEN : {<<>>, Key}, USE_POSTGRES : {FALSE}]
  /\ dbfile \in {NoFile} \cup {FileOf(img, t) : img \in DbImages, t \in 0..MaxSlack}
  /\ jar = [b \in Browsers |-> NoCookies]
  /\ sess = [b \in Browsers |-> FreshSession(NoCookies)]
  /\ minted \in {[b \in Browsers |-> IF b \in Active THEN MintOf(k) ELSE NoMint] :
                    k \in {m \in MintKeys : m[3] = AUTH_TTL_SECONDS /\ m[4] = 1 /\ m[5] = 0}}
  /\ revoked = [b \in Browsers |-> FALSE]
  /\ last = NoRun("Init", "b1")
  /\ CodecIdle

SpecHint == InitHint /\ [][NextHint]_vars

(* The request that opened the session of b carried the token issued to b, *)
(* the server holds the secret that signed it, and the token is neither    *)
(* expired nor bound to another fingerprint than the data file's.          *)
ValidAuthCookie(b) ==
  /\ minted[b].has
  /\ sess[b].hdr = minted[b].tok
  /\ env.SETUP_TOKEN = Key
  /\ now <= minted[b].exp
  /\ SameFingerprint(b)

(* C13: the cookie da_last_user carries no authentication weight.  After a *)
(* page load whose request holds no valid auth token the session is        *)
(* anonymous whatever da_last_user holds (a user's id, the text of a valid *)
(* token); an identity a page load restores is the one of the auth token,  *)
(* not the user da_last_user names; the cookie decides the user the login  *)
(* choice shows first, a user of the store, and a login sets the identity  *)
(* to a user of the store chosen on that screen.                           *)
C13_HintCarriesNoWeight ==
  \A b \in Active :
    /\ (last.op = "PageLoadHinted" /\ last.b = b /\ ~ValidAuthCookie(b))
       => (last.auth = NoAuth /\ sess[b].auth = NoAuth)
    /\ (last.op = "PageLoadHinted" /\ last.b = b /\ last.auth # NoAuth)
       => last.auth = LoggedInAs(b)
    /\ dbfile.users # {}
       => PreselectedUser(dbfile.users, _get_cookie_value(sess[b], LAST_USER_COOKIE_NAME))
            \in dbfile.users
    /\ (last.op = "Login" /\ last.b = b)
       => \E u \in dbfile.users : sess[b].auth = AuthState(u.id, u.username)

C13_Witness ==
  /\ last.op = "PageLoadHinted"
  /\ env.SETUP_TOKEN = Key
  /\ minted["b1"].has
  /\ sess["b1"].hdr = <<>>
  /\ sess["b1"].hint = minted["b1"].tok
  /\ now <= minted["b1"].exp
  /\ SameFingerprint("b1")
  /\ last.why = "no_cookie"
  /\ sess["b1"].auth = NoAuth

-----------------------------------------------------------------------------
(* THE STORE, ITS ARCHIVE AND THE IMPORT.                                  *)
(*                                                                         *)
(* A text is the sequence of its code points.  A table is the sequence of  *)
(* its rows in id order.  A Result row holds its opponent deck as the      *)
(* owner and name of the OpponentDeck row it points at (the row's id       *)
(* never changes, so a rename of that row is seen through the reference),  *)
(* and NoRef for NULL.                                                     *)

StoreUsers == {1, 2}

\* str.isspace() on the code points that occur
IsSpace(c) == c \in {9, 10, 11, 12, 13, 28, 29, 30, 31, 32, 133, 160}

Ink(t) == {i \in 1..Len(t) : ~IsSpace(t[i])}

Greatest(S) == CHOOSE i \in S : \A j \in S : j <= i

\* str.strip()
Strip(t) == IF Ink(t) = {} THEN <<>> ELSE SubSeq(t, Least(Ink(t)), Greatest(Ink(t)))

Win == <<12295>>
Loss == <<215>>
BothLose == <<20001, 25943>>
LegacyWin == <<21213, 12385>>
LegacyLoss == <<36000, 12369>>
LegacyDraw == <<24341, 12365, 20998, 12369>>
PlayFirst == <<20808, 34892>>
Walkover == <<19981, 25126, 21213>>

_normalize_match_result(value) ==
  IF Strip(value) = LegacyWin THEN Win
  ELSE IF Strip(value) = LegacyLoss THEN Loss
  ELSE IF Strip(value) = LegacyDraw THEN BothLose
  ELSE Strip(value)

\* date.today() while the store is operated on, and the dates of its rows
Today == 2
Dates == 1..9

IsoPrefix == <<50, 48, 50, 52, 45, 48, 49, 45, 48>>

\* date.isoformat() of the d-th of January 2024
isoformat(d) == IsoPrefix \o <<48 + d>>

\* date.fromisoformat(raw); 0 stands for ValueError
fromisoformat(raw) ==
  IF Len(raw) = 10 /\ SubSeq(raw, 1, 9) = IsoPrefix /\ (raw[10] - 48) \in Dates
  THEN raw[10] - 48 ELSE 0

\* a date parsed with no fallback
parsed_date_strict(raw_date) == fromisoformat(raw_date)

\* d = date.fromisoformat(raw_date) if raw_date else date.today(), and
\* date.today() on ValueError
ParsedDate(raw_date) ==
  IF raw_date = <<>> \/ fromisoformat(raw_date) = 0 THEN Today
  ELSE fromisoformat(raw_date)

\* str(int(bool(b)))
IntText(b) == IF b THEN <<49>> ELSE <<48>>

TrueTexts == {<<49>>, <<116, 114, 117, 101>>, <<84, 114, 117, 101>>,
              <<121, 101, 115>>, <<111, 110>>}

\* (row.get("is_active") or "").strip() in {"1", "true", "True", "yes", "on"}
ParsedFlag(text) == Strip(text) \in TrueTexts

NoRef == [user |-> 0, name |-> <<>>]
RefTo(u, name) == [user |-> u, name |-> name]

\* objects.filter(user=u, name=name).exists()
Exists(tab, u, name) == \E i \in 1..Len(tab) : tab[i].user = u /\ tab[i].name = name

\* the row objects.get(user=u, name=name) finds
RowAt(tab, u, name) == Least({i \in 1..Len(tab) : tab[i].user = u /\ tab[i].name = name})

\* the tables without the constraint: any write is accepted
no_constraint(tab, i, u, name) == TRUE

\* the UniqueConstraint on (user, name): writing (u, name) to a row other
\* than the i-th (0: to a new row) raises IntegrityError
unique_user_name(tab, i, u, name) ==
  \A j \in 1..Len(tab) : j # i => ~(tab[j].user = u /\ tab[j].name = name)

\* objects.filter(user=u): the rows of one user, in id order
OfUser(tab, u) == SelectSeq(tab, LAMBDA r : r.user = u)

\* objects.all().delete(): a delete that is not scoped to the user
delete_all(tab, u) == <<>>

\* objects.filter(user=u).delete()
WithoutUser(tab, u) == SelectSeq(tab, LAMBDA r : r.user # u)

\* on_delete=SET_NULL: the results that pointed at a deleted OpponentDeck
SetNull(results, u) ==
  [i \in 1..Len(results) |->
     IF results[i].opp.user = u THEN [results[i] EXCEPT !.opp = NoRef]
     ELSE results[i]]

\* a get_or_create that also sets the flag of the row it finds
get_or_create_activating(tab, u, name, flag) ==
  IF Exists(tab, u, name)
  THEN [i \in 1..Len(tab) |->
          IF tab[i].user = u /\ tab[i].name = name
          THEN [tab[i] EXCEPT !.is_active = flag] ELSE tab[i]]
  ELSE Append(tab, [user |-> u, name |-> name, is_active |-> flag])

\* get_or_create(user=u, name=name, defaults={"is_active": flag})
get_or_create(tab, u, name, flag) ==
  IF Exists(tab, u, name) THEN tab
  ELSE Append(tab, [user |-> u, name |-> name, is_active |-> flag])

\* the row deleted and created anew with the flag
recreate_row(tab, u, name, flag) ==
  SelectSeq(tab, LAMBDA r : ~(r.user = u /\ r.name = name))
    \o <<[user |-> u, name |-> name, is_active |-> flag]>>

\* obj.is_active = flag; obj.save(update_fields=["is_active"])
SetActive(tab, u, name, flag) ==
  [i \in 1..Len(tab) |->
     IF i = RowAt(tab, u, name) THEN [tab[i] EXCEPT !.is_active = flag]
     ELSE tab[i]]

\* a row written with create() in place of get_or_create()
insert_row(tab, u, row) ==
  IF Strip(row.name) = <<>> THEN tab
  ELSE Append(tab, [user |-> u, name |-> Strip(row.name),
                    is_active |-> ParsedFlag(row.is_active)])

\* one row of decks.csv or opponent_decks.csv
UpsertRow(tab, u, row) ==
  IF Strip(row.name) = <<>> THEN tab
  ELSE IF ~Exists(tab, u, Strip(row.name))
  THEN Append(tab, [user |-> u, name |-> Strip(row.name),
                    is_active |-> ParsedFlag(row.is_active)])
  ELSE SetActive(tab, u, Strip(row.name), ParsedFlag(row.is_active))

\* match_result = (row.get("match_result") or "").strip() or "〇"
MatchResultOr(text) == IF Strip(text) = <<>> THEN Win ELSE Strip(text)

\* the Result one row of results.csv creates
ResultOfRow(u, row) ==
  [user |-> u,
   date |-> ParsedDate(Strip(row.date)),
   used_deck |-> Strip(row.used_deck),
   opp |-> IF Strip(row.opponent_deck) = <<>> THEN NoRef
           ELSE RefTo(u, Strip(row.opponent_deck)),
   play_order |-> Strip(row.play_order),
   match_result |-> MatchResultOr(row.match_result),
   note |-> Strip(row.note)]

\* a result row that is skipped when the table holds an equal result
append_unless_present(st, u, row) ==
  IF \E i \in 1..Len(st.results) : st.results[i] = ResultOfRow(u, row) THEN st
  ELSE [st EXCEPT
          !.opps = IF Strip(row.opponent_deck) = <<>> THEN @
                   ELSE get_or_create(@, u, Strip(row.opponent_deck), TRUE),
          !.results = Append(@, ResultOfRow(u, row))]

\* one row of results.csv
AppendResultRow(st, u, row) ==
  [st EXCEPT
     !.opps = IF Strip(row.opponent_deck) = <<>> THEN @
              ELSE get_or_create(@, u, Strip(row.opponent_deck), TRUE),
     !.results = Append(@, ResultOfRow(u, row))]

\* an import that never deletes
purge_nothing(purge) == <<>>

\* An archive: the names of the entries the zip holds and the rows
\* csv.DictReader yields for each of the three entries; the rows given for
\* an entry the zip lacks are never read.
EntryNames == {"decks.csv", "opponent_decks.csv", "results.csv"}

\* every entry read whether the zip holds it or not
read_all(zip) == zip

\* parse_csv(z.read(name)) if name in names else []
ReadZip(zip) ==
  [names |-> zip.names,
   decks |-> IF "decks.csv" \in zip.names THEN zip.decks ELSE <<>>,
   opps |-> IF "opponent_decks.csv" \in zip.names THEN zip.opps ELSE <<>>,
   results |-> IF "results.csv" \in zip.names THEN zip.results ELSE <<>>]

\* The statements of the import, in the order the code runs them.
PurgeStatements(purge) ==
  IF purge
  THEN <<[kind |-> "purge_results", i |-> 0], [kind |-> "purge_decks", i |-> 0],
         [kind |-> "purge_opps", i |-> 0]>>
  ELSE <<>>

Statements(arch, purge) ==
  PurgeStatements(purge)
  \o [i \in 1..Len(arch.decks) |-> [kind |-> "deck", i |-> i]]
  \o [i \in 1..Len(arch.opps) |-> [kind |-> "opp", i |-> i]]
  \o [i \in 1..Len(arch.results) |-> [kind |-> "result", i |-> i]]

Execute(st, u, arch, stmt) ==
  CASE stmt.kind = "purge_results" ->
         [st EXCEPT !.results = WithoutUser(@, u)]
    [] stmt.kind = "purge_decks" ->
         [st EXCEPT !.decks = WithoutUser(@, u)]
    [] stmt.kind = "purge_opps" ->
         [st EXCEPT !.opps = WithoutUser(@, u), !.results = SetNull(@, u)]
    [] stmt.kind = "deck" ->
         [st EXCEPT !.decks = UpsertRow(@, u, arch.decks[stmt.i])]
    [] stmt.kind = "opp" ->
         [st EXCEPT !.opps = UpsertRow(@, u, arch.opps[stmt.i])]
    [] stmt.kind = "result" ->
         AppendResultRow(st, u, arch.results[stmt.i])

\* the tables inside the transaction after its first k statements
RECURSIVE Executed(_, _, _, _, _)
Executed(st, u, arch, stmts, k) ==
  IF k = 0 THEN st
  ELSE Execute(Executed(st, u, arch, stmts, k - 1), u, arch, stmts[k])

\* counters[...] += 1 in the statement of a row that is not skipped
CountRow(c, arch, stmt) ==
  CASE stmt.kind = "deck" ->
         IF Strip(arch.decks[stmt.i].name) = <<>> THEN c
         ELSE [c EXCEPT !.decks = @ + 1]
    [] stmt.kind = "opp" ->
         IF Strip(arch.opps[stmt.i].name) = <<>> THEN c
         ELSE [c EXCEPT !.opponent_decks = @ + 1]
    [] stmt.kind = "result" -> [c EXCEPT !.results = @ + 1]
    [] OTHER -> c

\* counters after the first k statements
RECURSIVE Counted(_, _, _)
Counted(arch, stmts, k) ==
  IF k = 0 THEN [decks |-> 0, opponent_decks |-> 0, results |-> 0]
  ELSE CountRow(Counted(arch, stmts, k - 1), arch, stmts[k])

\* the counters _import_user_data_zip returns
Counters(arch) ==
  Counted(arch, Statements(arch, FALSE), Len(Statements(arch, FALSE)))

\* the block run without a transaction: what was written stays
atomic_without_rollback(before, inside, raised) == inside

\* transaction.atomic(): on leaving the block the statements' work is
\* committed, on an exception the tables are those of its start
atomic(before, inside, raised) == IF raised THEN before ELSE inside

\* _import_user_data_zip when the k-th statement is the last to run, and
\* raises if `raised`
_import_user_data_zip(st, u, arch, purge, k, raised) ==
  atomic(st, Executed(st, u, arch, Statements(arch, purge), k), raised)

Imported(st, u, arch, purge) ==
  _import_user_data_zip(st, u, arch, purge, Len(Statements(arch, purge)), FALSE)

\* _export_user_data_zip: the rows of the three entries
DeckRows(tab, u) ==
  [i \in 1..Len(OfUser(tab, u)) |->
     [name |-> OfUser(tab, u)[i].name,
      is_active |-> IntText(OfUser(tab, u)[i].is_active)]]

ResultRowOf(r) ==
  [date |-> isoformat(r.date), used_deck |-> r.used_deck,
   opponent_deck |-> IF r.opp = NoRef THEN <<>> ELSE r.opp.name,
   play_order |-> r.play_order, match_result |-> r.match_result,
   note |-> r.note]

ResultRows(tab, u) ==
  [i \in 1..Len(OfUser(tab, u)) |-> ResultRowOf(OfUser(tab, u)[i])]

_export_user_data_zip(st, u) ==
  [names |-> EntryNames,
   decks |-> DeckRows(st.decks, u), opps |-> DeckRows(st.opps, u),
   results |-> ResultRows(st.results, u)]

-----------------------------------------------------------------------------
(* THE OPERATIONS ON THE STORE.                                            *)

MaxRows == 2
MaxOps == 3

X == <<120>>
Y == <<121>>
SpaceX == <<32, 120>>

\* what a user types in a name field
TypedNames == {<<>>, X, SpaceX, Y}

Fits(st) ==
  /\ Len(st.decks) <= MaxRows
  /\ Len(st.opps) <= MaxRows
  /\ Len(st.results) <= MaxRows

\* an operation other than the import: only its name, user and whether it
\* raised are kept
StoreStep(op, u, st, raised) ==
  /\ slast.seq < MaxOps
  /\ Fits(st)
  /\ store' = st
  /\ slast' = [NoStoreOp EXCEPT !.op = op, !.user = u, !.raised = raised,
                               !.seq = slast.seq + 1]
  /\ UNCHANGED <<sysvars, codecvars>>

\* get_or_create(..., defaults={"is_active": True}), and an inactive row
\* found is made active
Ensured(tab, u, name) ==
  IF name = <<>> THEN tab
  ELSE IF Exists(tab, u, name) THEN SetActive(tab, u, name, TRUE)
  ELSE Append(tab, [user |-> u, name |-> name, is_active |-> TRUE])

\* "不戦勝" in note_text
HasWalkover(note) ==
  \E i \in 1..Len(note) : i + 2 <= Len(note) /\ SubSeq(note, i, i + 2) = Walkover

\* the note of a result saved with the opponent deck name `opp`
NoteText(note, opp) ==
  IF opp # <<>> \/ HasWalkover(note) THEN note
  ELSE IF note = <<>> THEN Walkover
  ELSE Strip(note \o <<10>> \o Walkover)

\* _page_input, the save button
Saved(st, u, d, used, opp, play, result, note) ==
  [decks |-> Ensured(st.decks, u, used),
   opps |-> Ensured(st.opps, u, opp),
   results |-> Append(st.results,
     [user |-> u, date |-> d, used_deck |-> used,
      opp |-> IF opp = <<>> THEN NoRef ELSE RefTo(u, opp),
      play_order |-> play,
      match_result |-> IF opp = <<>> THEN Win ELSE _normalize_match_result(result),
      note |-> NoteText(note, opp)])]

SaveResult(u, used_deck, opp_text, note) ==
  StoreStep("save", u,
            Saved(store, u, 1, Strip(used_deck), Strip(opp_text), PlayFirst,
                  LegacyWin, Strip(note)),
            FALSE)

\* _page_master, the add button of either table
Added(tab, u, new_name) ==
  IF Strip(new_name) = <<>> \/ Exists(tab, u, Strip(new_name)) THEN tab
  ELSE IF ~unique_user_name(tab, 0, u, Strip(new_name)) THEN tab
  ELSE Append(tab, [user |-> u, name |-> Strip(new_name), is_active |-> TRUE])

AddDeck(u, new_name) ==
  StoreStep("add_deck", u, [store EXCEPT !.decks = Added(@, u, new_name)], FALSE)

AddOpponentDeck(u, new_name) ==
  StoreStep("add_opp", u, [store EXCEPT !.opps = Added(@, u, new_name)], FALSE)

\* _page_master, the update button of either table, with the i-th row
\* edited: objects.filter(user=u, id=...).update(name=..., is_active=...).
\* The rows left as they were are rewritten with their own values.
Updated(tab, i, name, active) ==
  IF unique_user_name(tab, i, tab[i].user, name)
  THEN [tab EXCEPT ![i].name = name, ![i].is_active = active]
  ELSE tab

\* the references to the i-th opponent deck follow its row
Followed(results, old, new) ==
  [k \in 1..Len(results) |->
     IF results[k].opp = old THEN [results[k] EXCEPT !.opp = new]
     ELSE results[k]]

UpdateDeck(u, i, name, active) ==
  /\ i \in 1..Len(store.decks)
  /\ store.decks[i].user = u
  /\ StoreStep("update_deck", u,
               [store EXCEPT !.decks = Updated(@, i, name, active)],
               ~unique_user_name(store.decks, i, u, name))

UpdateOpponentDeck(u, i, name, active) ==
  /\ i \in 1..Len(store.opps)
  /\ store.opps[i].user = u
  /\ StoreStep("update_opp", u,
               [store EXCEPT
                  !.opps = Updated(@, i, name, active),
                  !.results = IF unique_user_name(store.opps, i, u, name)
                              THEN Followed(@, RefTo(u, store.opps[i].name),
                                            RefTo(u, name))
                              ELSE @],
               ~unique_user_name(store.opps, i, u, name))

\* _page_results, the edit of the i-th result: the opponent deck is one
\* of the user's active opponent decks (j-th row) or none (j = 0)
EditResult(u, i, ed_used_deck, j, ed_note) ==
  /\ i \in 1..Len(store.results)
  /\ store.results[i].user = u
  /\ j = 0 \/ (j \in 1..Len(store.opps) /\ store.opps[j].user = u
               /\ store.opps[j].is_active)
  /\ StoreStep("edit", u,
               [store EXCEPT
                  !.results[i].used_deck = ed_used_deck,
                  !.results[i].opp = IF j = 0 THEN NoRef
                                     ELSE RefTo(u, store.opps[j].name),
                  !.results[i].match_result = _normalize_match_result(@),
                  !.results[i].note = ed_note],
               FALSE)

\* _page_results, the delete button with the i-th result selected
DeleteResult(u, i) ==
  /\ i \in 1..Len(store.results)
  /\ store.results[i].user = u
  /\ StoreStep("delete", u,
               [store EXCEPT !.results =
                  SubSeq(@, 1, i - 1) \o SubSeq(@, i + 1, Len(@))],
               FALSE)

\* Archives a user may upload: written by hand, or exported by a user
Row(name, flag) == [name |-> name, is_active |-> flag]
ResultRow(d, used, opp, play, result, note) ==
  [date |-> d, used_deck |-> used, opponent_deck |-> opp,
   play_order |-> play, match_result |-> result, note |-> note]

Aggro == <<65, 103, 103, 114, 111>>
Control == <<67, 111, 110, 116, 114, 111, 108>>
First == <<102, 105, 114, 115, 116>>
WinWord == <<119, 105, 110>>

\* decks=[("Aggro",1)], opponent_decks=[("Control",1)],
\* results=[("2024-01-01","Aggro","Control","first","win","")]
Scenario ==
  [names |-> EntryNames,
   decks |-> <<Row(Aggro, <<49>>)>>, opps |-> <<Row(Control, <<49>>)>>,
   results |-> <<ResultRow(isoformat(1), Aggro, Control, First, WinWord, <<>>)>>]

\* two deck rows of one name after strip(), the second inactive
Duplicates ==
  [names |-> EntryNames,
   decks |-> <<Row(SpaceX, <<49>>), Row(X, <<48>>)>>, opps |-> <<>>,
   results |-> <<>>]

\* a deck row without name, an opponent deck set inactive, and a result
\* against it whose date is no date
Lenient ==
  [names |-> EntryNames,
   decks |-> <<Row(<<>>, <<49>>)>>, opps |-> <<Row(Y, <<48>>)>>,
   results |-> <<ResultRow(X, SpaceX, Y, <<>>, <<>>, <<>>)>>]

\* a zip that holds results.csv and no other entry
ResultsOnly ==
  [names |-> {"results.csv"},
   decks |-> <<Row(Y, <<49>>)>>, opps |-> <<>>,
   results |-> <<ResultRow(isoformat(1), X, Y, <<>>, Win, <<>>)>>]

HandMade == {Scenario, Duplicates, Lenient, ResultsOnly}

\* the archives user u uploads: hand-made ones (all of them from user 1)
\* and the exports of either user
UploadsOf(u) ==
  (IF u = 1 THEN HandMade ELSE {Lenient})
    \cup {_export_user_data_zip(store, v) : v \in StoreUsers}

\* _page_backup_restore, the import button: the import returns its counters
ImportRows(u, arch, purge) ==
  /\ slast.seq < MaxOps
  /\ Fits(Imported(store, u, arch, purge))
  /\ store' = Imported(store, u, arch, purge)
  /\ slast' = [op |-> "import", user |-> u, purge |-> purge, arch |-> arch,
               before |-> store, once |-> store', n |-> 1,
               done |-> Len(Statements(arch, purge)),
               counters |-> Counters(arch), raised |-> FALSE,
               seq |-> slast.seq + 1]
  /\ UNCHANGED <<sysvars, codecvars>>

Import(u, zip, purge) == ImportRows(u, ReadZip(zip), purge)

\* the import raises after `done` of its statements; nothing is returned
ImportRowsRaises(u, arch, purge, done) ==
  /\ slast.seq < MaxOps
  /\ done \in 0..Len(Statements(arch, purge))
  /\ Fits(Imported(store, u, arch, purge))
  /\ store' = _import_user_data_zip(store, u, arch, purge, done, TRUE)
  /\ slast' = [op |-> "import", user |-> u, purge |-> purge, arch |-> arch,
               before |-> store, once |-> EmptyStore, n |-> 0, done |-> done,
               counters |-> NoCounters, raised |-> TRUE,
               seq |-> slast.seq + 1]
  /\ UNCHANGED <<sysvars, codecvars>>

ImportRaises(u, zip, purge, done) ==
  ImportRowsRaises(u, ReadZip(zip), purge, done)

\* the same archive is imported once more, without purge
ImportAgain ==
  /\ slast.seq < MaxOps
  /\ slast.op = "import" /\ slast.n = 1 /\ ~slast.purge
  /\ Fits(Imported(store, slast.user, slast.arch, FALSE))
  /\ store' = Imported(store, slast.user, slast.arch, FALSE)
  /\ slast' = [slast EXCEPT !.n = 2, !.seq = slast.seq + 1]
  /\ UNCHANGED <<sysvars, codecvars>>

\* the export of a user's data is imported into an empty store
ExportImport(u) ==
  /\ slast.seq < MaxOps
  /\ store' = Imported(EmptyStore, u, ReadZip(_export_user_data_zip(store, u)), FALSE)
  /\ slast' = [op |-> "export_import", user |-> u, purge |-> FALSE,
               arch |-> ReadZip(_export_user_data_zip(store, u)),
               before |-> store, once |-> store', n |-> 1,
               done |-> Len(Statements(ReadZip(_export_user_data_zip(store, u)),
                                       FALSE)),
               counters |-> Counters(ReadZip(_export_user_data_zip(store, u))),
               raised |-> FALSE, seq |-> slast.seq + 1]
  /\ UNCHANGED <<sysvars, codecvars>>

InitStore ==
  /\ StoreIdle
  /\ now = 0
  /\ env = [SETUP_TOKEN |-> Key, USE_POSTGRES |-> TRUE]
  /\ dbfile = NoFile
  /\ jar = [b \in Browsers |-> NoCookies]
  /\ sess = [b \in Browsers |-> FreshSession(NoCookies)]
  /\ minted = [b \in Browsers |-> NoMint]
  /\ revoked = [b \in Browsers |-> FALSE]
  /\ last = NoRun("Init", "b1")
  /\ CodecIdle

\* the edits of one row tried in the settings table
Edits(row) ==
  {[name |-> SpaceX, is_active |-> row.is_active],
   [name |-> X, is_active |-> row.is_active],
   [name |-> row.name, is_active |-> ~row.is_active]}

NextStore ==
  \/ \E u \in StoreUsers, opp \in {<<>>, Y} : SaveResult(u, SpaceX, opp, <<>>)
  \/ \E name \in {SpaceX, Y} : AddDeck(1, name)
  \/ \E name \in {SpaceX, Y} : AddOpponentDeck(1, name)
  \/ \E i \in 1..Len(store.decks) : \E e \in Edits(store.decks[i]) :
       UpdateDeck(1, i, e.name, e.is_active)
  \/ \E i \in 1..Len(store.opps) : \E e \in Edits(store.opps[i]) :
       UpdateOpponentDeck(1, i, e.name, e.is_active)
  \/ \E i \in 1..Len(store.results), j \in 0..Len(store.opps) :
       EditResult(1, i, SpaceX, j, <<>>)
  \/ \E i \in 1..Len(store.results) : DeleteResult(1, i)
  \/ \E u \in StoreUsers, purge \in BOOLEAN : \E zip \in UploadsOf(u) :
       Import(u, zip, purge)
  \/ \E purge \in BOOLEAN : \E zip \in HandMade \ {Scenario} :
       \E done \in 0..Len(Statements(ReadZip(zip), purge)) :
         ImportRaises(1, zip, purge, done)
  \/ ImportAgain
  \/ \E u \in StoreUsers : ExportImport(u)

SpecStore == InitStore /\ [][NextStore]_vars

-----------------------------------------------------------------------------
(* THE CLAIMS ABOUT THE IMPORT AND THE STORE.                              *)

\* the tables inside the transaction of the last import when it stopped
InsideLast ==
  Executed(slast.before, slast.user, slast.arch,
           Statements(slast.arch, slast.purge), slast.done)

(* C14: Import atomicity.  When the import raises after any number of its  *)
(* statements (purge, deck upsert, opponent-deck upsert, result insert),   *)
(* with or without purge, the tables are exactly those before the call     *)
(* and no counters are returned.                                           *)
C14_ImportAtomicity ==
  (slast.op = "import" /\ slast.raised) =>
    (store = slast.before /\ slast.counters = NoCounters)

\* an import with purge raised after part of its work: rows of the user
\* were deleted or written inside the transaction
C14_Witness ==
  /\ slast.op = "import" /\ slast.raised /\ slast.purge
  /\ slast.done \in 1..(Len(Statements(slast.arch, slast.purge)) - 1)
  /\ InsideLast # slast.before
  /\ slast.before # EmptyStore

\* the same archive has been imported twice in a row without purge
ImportedTwice == slast.op = "import" /\ ~slast.raised /\ slast.n = 2

(* C15: Idempotent upsert.  After the same archive is applied a second     *)
(* time without purge, the Deck and OpponentDeck tables are those the      *)
(* first application left: no row was created and no active flag differs.  *)
C15_IdempotentUpsert ==
  ImportedTwice =>
    (store.decks = slast.once.decks /\ store.opps = slast.once.opps)

\* the first application wrote decks and opponent decks into a store that
\* already held rows
C15_Witness ==
  /\ ImportedTwice
  /\ slast.before # EmptyStore
  /\ slast.once.decks # slast.before.decks
  /\ slast.once.opps # slast.before.opps

\* Result.objects.filter(user=u).count()
ResultCount(st, u) == Len(OfUser(st.results, u))

(* C16: Non-idempotent append.  Each application of the archive without    *)
(* purge adds one Result per row of results.csv: after the second the      *)
(* user's result count has grown by twice the number of result rows, and   *)
(* from a store without results it doubles from the first to the second.   *)
C16_NonIdempotentAppend ==
  ImportedTwice =>
    /\ ResultCount(slast.once, slast.user) =
         ResultCount(slast.before, slast.user) + Len(slast.arch.results)
    /\ ResultCount(store, slast.user) =
         ResultCount(slast.before, slast.user) + 2 * Len(slast.arch.results)
    /\ ResultCount(slast.before, slast.user) = 0 =>
         ResultCount(store, slast.user) = 2 * ResultCount(slast.once, slast.user)

\* an archive with a result row applied twice: the table ends with two
\* equal results
C16_Witness ==
  /\ ImportedTwice
  /\ Len(slast.arch.results) = 1
  /\ ResultCount(store, slast.user) = 2
  /\ OfUser(store.results, slast.user)[1] = OfUser(store.results, slast.user)[2]

\* the decks of a user by (name, is_active)
DeckSet(tab, u) ==
  {<<OfUser(tab, u)[i].name, OfUser(tab, u)[i].is_active>> :
     i \in 1..Len(OfUser(tab, u))}

\* the results of a user by (date, used_deck, opponent deck name,
\* play_order, match_result, note), each with the number of its rows
ResultBag(tab, u) ==
  [r \in {ResultRowOf(OfUser(tab, u)[i]) : i \in 1..Len(OfUser(tab, u))} |->
     Cardinality({i \in 1..Len(OfUser(tab, u)) : ResultRowOf(OfUser(tab, u)[i]) = r})]

SameDataset(a, b, u) ==
  /\ DeckSet(a.decks, u) = DeckSet(b.decks, u)
  /\ DeckSet(a.opps, u) = DeckSet(b.opps, u)
  /\ ResultBag(a.results, u) = ResultBag(b.results, u)

(* C17: Export/import round-trip.  Importing the archive exported for a    *)
(* user into an empty store yields the user's decks and opponent decks by  *)
(* (name, is_active) and the user's results by all their fields, as a      *)
(* multiset, for every dataset the store can hold.                         *)
C17_RoundTrip ==
  slast.op = "export_import" => SameDataset(store, slast.before, slast.user)

\* an import with purge returned
PurgedImport == slast.op = "import" /\ ~slast.raised /\ slast.purge /\ slast.n = 1

\* the rows of decks.csv or opponent_decks.csv as read: name and flag
RowsRead(rows) ==
  {<<Strip(rows[i].name), ParsedFlag(rows[i].is_active)>> : i \in 1..Len(rows)}

\* the rows of results.csv as read, each with the number of its rows
ResultRead(row) ==
  [date |-> isoformat(ParsedDate(Strip(row.date))),
   used_deck |-> Strip(row.used_deck),
   opponent_deck |-> Strip(row.opponent_deck),
   play_order |-> Strip(row.play_order),
   match_result |-> IF Strip(row.match_result) = <<>> THEN Win
                    ELSE Strip(row.match_result),
   note |-> Strip(row.note)]

ResultsRead(rows) ==
  [r \in {ResultRead(rows[i]) : i \in 1..Len(rows)} |->
     Cardinality({i \in 1..Len(rows) : ResultRead(rows[i]) = r})]

\* C18 as stated: each table of the user equals the archive's entry of
\* the same name
C18_PurgeExact ==
  PurgedImport =>
    /\ DeckSet(store.decks, slast.user) = RowsRead(slast.arch.decks)
    /\ DeckSet(store.opps, slast.user) = RowsRead(slast.arch.opps)
    /\ ResultBag(store.results, slast.user) = ResultsRead(slast.arch.results)

\* the rows of an entry that end as rows of the table: a blank name is
\* skipped, and of the rows of one name the last gives the flag
RowsKept(rows) ==
  {<<Strip(rows[i].name), ParsedFlag(rows[i].is_active)>> :
     i \in {k \in 1..Len(rows) :
              /\ Strip(rows[k].name) # <<>>
              /\ \A m \in (k + 1)..Len(rows) : Strip(rows[m].name) # Strip(rows[k].name)}}

\* the opponents named in results.csv and by no row of opponent_decks.csv
OnlyInResults(arch) ==
  {Strip(arch.results[i].opponent_deck) : i \in 1..Len(arch.results)}
    \ ({<<>>} \cup {Strip(arch.opps[i].name) : i \in 1..Len(arch.opps)})

(* C18: Purge-before-import.  After an import with purge, from any store,  *)
(* no row the user had before is left; the user's decks are the rows of    *)
(* decks.csv with a name (the last row of a name giving its flag), the     *)
(* opponent decks are those of opponent_decks.csv likewise and an active   *)
(* one for every opponent named only in results.csv, and the results are   *)
(* the rows of results.csv as read.                                        *)
C18_PurgeThenArchive ==
  PurgedImport =>
    /\ DeckSet(store.decks, slast.user) = RowsKept(slast.arch.decks)
    /\ DeckSet(store.opps, slast.user) =
         RowsKept(slast.arch.opps)
           \cup {<<name, TRUE>> : name \in OnlyInResults(slast.arch)}
    /\ ResultBag(store.results, slast.user) = ResultsRead(slast.arch.results)
    /\ Len(OfUser(store.decks, slast.user)) = Cardinality(RowsKept(slast.arch.decks))

\* the user had a deck, an opponent deck and a result; the archive names
\* an opponent only in results.csv
C18_Witness ==
  /\ PurgedImport
  /\ OfUser(slast.before.decks, slast.user) # <<>>
  /\ OfUser(slast.before.opps, slast.user) # <<>>
  /\ OfUser(slast.before.results, slast.user) # <<>>
  /\ OnlyInResults(slast.arch) # {}
  /\ OfUser(store.results, slast.user) # <<>>

\* the rows of the three tables that one user owns
Owned(st, u) ==
  [decks |-> OfUser(st.decks, u), opps |-> OfUser(st.opps, u),
   results |-> OfUser(st.results, u)]

\* every result of the user points at an opponent deck of the user that
\* is in the table, or at none
OwnOpponents(st, u) ==
  \A i \in 1..Len(st.results) :
    st.results[i].user = u =>
      \/ st.results[i].opp = NoRef
      \/ /\ st.results[i].opp.user = u
         /\ Exists(st.opps, u, st.results[i].opp.name)

(* C19: Owner scoping.  An import for one user, with or without purge,     *)
(* returned or raised, leaves the decks, opponent decks and results of     *)
(* every other user as they were, and the results of the importing user    *)
(* reference only that user's opponent decks, or none.                     *)
C19_OwnerScoping ==
  slast.op = "import" =>
    /\ \A b \in StoreUsers \ {slast.user} : Owned(store, b) = Owned(slast.before, b)
    /\ OwnOpponents(store, slast.user)

\* user 2 holds a deck, an opponent deck and a result; user 1, who had
\* rows too, imported with purge an archive whose result names an opponent
C19_Witness ==
  /\ slast.op = "import" /\ ~slast.raised /\ slast.purge /\ slast.user = 1
  /\ Len(OfUser(store.decks, 2)) > 0
  /\ Len(OfUser(store.opps, 2)) > 0
  /\ Len(OfUser(store.results, 2)) > 0
  /\ Len(OfUser(slast.before.results, 1)) > 0
  /\ \E i \in 1..Len(store.results) :
       store.results[i].user = 1 /\ store.results[i].opp # NoRef

\* no two rows of the table have the same owner and name
Unique(tab) ==
  \A i, j \in 1..Len(tab) :
    i # j => ~(tab[i].user = tab[j].user /\ tab[i].name = tab[j].name)

(* C20: Uniqueness invariant.  After any sequence of result entry,         *)
(* settings add and update, result edit and delete, and import, no two     *)
(* Deck rows and no two OpponentDeck rows have the same (owner, name).     *)
C20_UniqueOwnerName == Unique(store.decks) /\ Unique(store.opps)

\* a rename on the settings screen to the name of another deck of the
\* user was refused
C20_Witness ==
  /\ slast.op = "update_deck" /\ slast.raised
  /\ Len(OfUser(store.decks, slast.user)) = 2

\* an import returned, and was not repeated
ImportedOnce == slast.op = "import" /\ ~slast.raised /\ slast.n = 1

\* a row of either deck table with its flag left out
Unflagged(row) == [user |-> row.user, name |-> row.name]

(* C21: Additive import frame.  An import without purge deletes no row     *)
(* that was there before and changes no earlier Result; of an earlier      *)
(* Deck or OpponentDeck row it changes at most is_active.                  *)
C21_AdditiveFrame ==
  (slast.op = "import" /\ ~slast.raised /\ ~slast.purge) =>
    /\ Len(store.decks) >= Len(slast.before.decks)
    /\ Len(store.opps) >= Len(slast.before.opps)
    /\ Len(store.results) >= Len(slast.before.results)
    /\ \A i \in 1..Len(slast.before.results) :
         store.results[i] = slast.before.results[i]
    /\ \A i \in 1..Len(slast.before.decks) :
         Unflagged(store.decks[i]) = Unflagged(slast.before.decks[i])
    /\ \A i \in 1..Len(slast.before.opps) :
         Unflagged(store.opps[i]) = Unflagged(slast.before.opps[i])

\* an import without purge into a store with a result changed the flag of
\* a deck that was there
C21_Witness ==
  /\ ImportedOnce /\ ~slast.purge
  /\ slast.before.results # <<>>
  /\ \E i \in 1..Len(slast.before.decks) :
       store.decks[i].is_active # slast.before.decks[i].is_active

\* the rows of an entry with a name
NamedRows(rows) == {i \in 1..Len(rows) : Strip(rows[i].name) # <<>>}

\* the counts are those of the rows processed
CountsOfRows ==
  /\ slast.counters.decks = Cardinality(NamedRows(slast.arch.decks))
  /\ slast.counters.opponent_decks = Cardinality(NamedRows(slast.arch.opps))
  /\ slast.counters.results = Len(slast.arch.results)

\* the scenario import gives 1/1/1, one active deck, one active opponent
\* deck and one result
ScenarioHolds ==
  (slast.arch = ReadZip(Scenario) /\ slast.before = EmptyStore) =>
    /\ slast.counters = [decks |-> 1, opponent_decks |-> 1, results |-> 1]
    /\ store.decks = <<[user |-> slast.user, name |-> Aggro, is_active |-> TRUE]>>
    /\ store.opps = <<[user |-> slast.user, name |-> Control, is_active |-> TRUE]>>
    /\ Len(store.results) = 1
    /\ store.results[1].date = 1
    /\ store.results[1].used_deck = Aggro
    /\ store.results[1].opp = RefTo(slast.user, Control)

\* C22 as stated: an entry the archive lacks leaves its collection as it
\* was
C22_MissingEntryNoChange ==
  ImportedOnce =>
    /\ CountsOfRows
    /\ "decks.csv" \notin slast.arch.names =>
         OfUser(store.decks, slast.user) = OfUser(slast.before.decks, slast.user)
    /\ "opponent_decks.csv" \notin slast.arch.names =>
         OfUser(store.opps, slast.user) = OfUser(slast.before.opps, slast.user)
    /\ "results.csv" \notin slast.arch.names =>
         OfUser(store.results, slast.user) = OfUser(slast.before.results, slast.user)

(* C22: Import counts.  The counts returned are the deck and               *)
(* opponent-deck rows with a name and all the result rows; an entry the    *)
(* archive lacks counts 0 and adds nothing: without purge the decks (for   *)
(* decks.csv) and the results (for results.csv) stay as they were, and     *)
(* the opponent decks (for opponent_decks.csv) gain only the opponents     *)
(* that result rows name; with purge the collection is emptied all the     *)
(* same.  The scenario archive gives 1/1/1 and one row of each kind.       *)
C22_ImportCounts ==
  ImportedOnce =>
    /\ CountsOfRows
    /\ ScenarioHolds
    /\ "decks.csv" \notin slast.arch.names =>
         /\ slast.counters.decks = 0
         /\ OfUser(store.decks, slast.user) =
              IF slast.purge THEN <<>> ELSE OfUser(slast.before.decks, slast.user)
    /\ "results.csv" \notin slast.arch.names =>
         /\ slast.counters.results = 0
         /\ OfUser(store.results, slast.user) =
              IF slast.purge THEN <<>> ELSE OfUser(slast.before.results, slast.user)
    /\ "opponent_decks.csv" \notin slast.arch.names =>
         /\ slast.counters.opponent_decks = 0
         /\ DeckSet(store.opps, slast.user) =
              (IF slast.purge THEN {} ELSE DeckSet(slast.before.opps, slast.user))
                \cup {<<name, TRUE>> :
                        name \in {n \in OnlyInResults(slast.arch) :
                                    slast.purge
                                    \/ ~Exists(slast.before.opps, slast.user, n)}}

\* an archive that holds only results.csv was imported into a store where
\* the user had decks
C22_Witness ==
  /\ ImportedOnce
  /\ slast.arch.names = {"results.csv"}
  /\ OfUser(slast.before.decks, slast.user) # <<>>
  /\ slast.counters = [decks |-> 0, opponent_decks |-> 0, results |-> 1]

\* the Result the import created for the i-th row of results.csv
Inserted(i) ==
  store.results[Len(store.results) - Len(slast.arch.results) + i]

\* the rows of opponent_decks.csv that name an opponent
RowsNaming(name) ==
  {k \in 1..Len(slast.arch.opps) : Strip(slast.arch.opps[k].name) = name}

\* the flag an opponent deck has when the result rows are reached
FlagBeforeResults(name) ==
  IF RowsNaming(name) # {}
  THEN ParsedFlag(slast.arch.opps[Greatest(RowsNaming(name))].is_active)
  ELSE IF ~slast.purge /\ Exists(slast.before.opps, slast.user, name)
  THEN slast.before.opps[RowAt(slast.before.opps, slast.user, name)].is_active
  ELSE TRUE

(* C23: Opponent resolution.  The result created for a row that names an   *)
(* opponent points at the user's OpponentDeck of that name; that deck is   *)
(* active when the row created it and otherwise has the flag it had, from  *)
(* the store or from opponent_decks.csv.  A row without an opponent name   *)
(* gives a result without opponent deck.                                   *)
C23_OpponentResolution ==
  ImportedOnce =>
    \A i \in 1..Len(slast.arch.results) :
      /\ Inserted(i).user = slast.user
      /\ Strip(slast.arch.results[i].opponent_deck) = <<>> =>
           Inserted(i).opp = NoRef
      /\ Strip(slast.arch.results[i].opponent_deck) # <<>> =>
           /\ Inserted(i).opp =
                RefTo(slast.user, Strip(slast.arch.results[i].opponent_deck))
           /\ Exists(store.opps, slast.user, Inserted(i).opp.name)
           /\ store.opps[RowAt(store.opps, slast.user, Inserted(i).opp.name)].is_active
                = FlagBeforeResults(Inserted(i).opp.name)

\* a result was imported against an opponent deck that is inactive
C23_Witness ==
  /\ ImportedOnce
  /\ \E i \in 1..Len(slast.arch.results) :
       /\ Inserted(i).opp # NoRef
       /\ ~store.opps[RowAt(store.opps, slast.user, Inserted(i).opp.name)].is_active

\* the names of the user's rows the import starts from
StartNames(tab) ==
  IF slast.purge THEN {}
  ELSE {OfUser(tab, slast.user)[i].name : i \in 1..Len(OfUser(tab, slast.user))}

KeptNames(rows) == {Strip(rows[i].name) : i \in NamedRows(rows)}

(* C24: Lenient row decoding.  A deck or opponent-deck row with a blank    *)
(* name creates no row and is not counted, while the rows with a name      *)
(* around it are written; a result row with a blank or unparseable date    *)
(* is inserted with today's date, its other fields as read; the import     *)
(* returns.                                                                *)
C24_LenientDecoding ==
  ImportedOnce =>
    /\ RowsKept(slast.arch.decks) \subseteq DeckSet(store.decks, slast.user)
    /\ RowsKept(slast.arch.opps) \subseteq DeckSet(store.opps, slast.user)
    /\ Len(OfUser(store.decks, slast.user)) =
         Cardinality(StartNames(slast.before.decks) \cup KeptNames(slast.arch.decks))
    /\ \A i \in 1..Len(OfUser(store.decks, slast.user)) :
         OfUser(store.decks, slast.user)[i].name = <<>> =>
           <<>> \in StartNames(slast.before.decks)
    /\ slast.counters.decks = Len(slast.arch.decks)
         - Cardinality({i \in 1..Len(slast.arch.decks) :
                          Strip(slast.arch.decks[i].name) = <<>>})
    /\ Len(store.results) =
         Len(IF slast.purge THEN WithoutUser(slast.before.results, slast.user)
             ELSE slast.before.results) + Len(slast.arch.results)
    /\ \A i \in 1..Len(slast.arch.results) :
         /\ fromisoformat(Strip(slast.arch.results[i].date)) = 0 =>
              Inserted(i).date = Today
         /\ fromisoformat(Strip(slast.arch.results[i].date)) # 0 =>
              Inserted(i).date = fromisoformat(Strip(slast.arch.results[i].date))
         /\ Inserted(i).used_deck = Strip(slast.arch.results[i].used_deck)

\* an archive with a deck row without name and a result row whose date is
\* no date was imported
C24_Witness ==
  /\ ImportedOnce
  /\ \E i \in 1..Len(slast.arch.decks) : Strip(slast.arch.decks[i].name) = <<>>
  /\ \E i \in 1..Len(slast.arch.results) :
       /\ fromisoformat(Strip(slast.arch.results[i].date)) = 0
       /\ Inserted(i).date = Today
  /\ slast.counters.decks = 0

-----------------------------------------------------------------------------
(* THE EXPIRY BOUNDARY, under SpecRequest.                                 *)

\* C25 as stated: an identity is restored only while exp is later than now
C25_StrictExpiry ==
  \A b \in Active :
    (Replayed(b) /\ last.auth # NoAuth) => minted[b].exp > now

(* C25: Expiry boundary.  The restore turns a token away when now is       *)
(* later than its exp, and accepts it up to and at the instant now = exp:  *)
(* with the signature valid and the fingerprint the file's, the token is   *)
(* accepted if and only if now <= exp.                                     *)
C25_ExpiryBoundary ==
  \A b \in Active :
    Replayed(b) =>
      /\ last.auth # NoAuth => now <= minted[b].exp
      /\ SameFingerprint(b) =>
           /\ now > minted[b].exp => (last.why = "expired" /\ last.auth = NoAuth)
           /\ now = minted[b].exp =>
                (last.why = "ok" /\ last.auth.user_id = minted[b].user_id)
           /\ now < minted[b].exp => last.why = "ok"

\* the token is presented at the instant of its exp, and is accepted
C25_Witness ==
  /\ Replayed("b1")
  /\ SameFingerprint("b1")
  /\ now = minted["b1"].exp
  /\ last.why = "ok"
  /\ last.auth # NoAuth

-----------------------------------------------------------------------------
(* THE RESTORE IN A SESSION THAT HOLDS AN IDENTITY.                        *)
(* main() calls the restore on every run, so it also runs in sessions that *)
(* a login made: such a session holds an identity, and the Cookie header   *)
(* of the request that opened it may hold a token issued for another user  *)
(* (the token was turned away when the session opened, for the data file   *)
(* it names was not the one in place, and that file is back since).        *)

\* the identities a login can have given a session
HeldIdentities ==
  {AuthState(u.id, u.username) : u \in UNION {img.users : img \in DbImages}}

(* Streamlit runs main() again in a session of b that holds identity held  *)
(* and whose request carried a da_auth cookie made from the token issued   *)
(* to src.                                                                 *)
RerunHolding(b, held, kind, src) ==
  /\ minted[src].has
  /\ RunMain("RerunHolding", b,
             [FreshSession(jar[b]) EXCEPT !.auth = held,
                                          !.hdr = forged_token_once(kind, minted[src].tok)])
  /\ UNCHANGED <<now, env, dbfile, minted, codecvars, storevars>>

(* One run of each behaviour, in an anonymous session or in one that       *)
(* holds an identity.                                                      *)
NextSession ==
  /\ last.op = "Init"
  /\ \/ \E b \in Active, kind \in {"replay", "sig_char"}, src \in Active :
          PageLoadWith(b, kind, src)
     \/ \E b \in Active, held \in HeldIdentities, kind \in {"replay", "sig_char"},
           src \in Active : RerunHolding(b, held, kind, src)

SpecSession == InitRequest /\ [][NextSession]_vars

(* C26: Restore never overrides a session identity.  In a session that     *)
(* holds an identity the restore returns at once and leaves the session    *)
(* as it was, whatever token the request carried; a restore that changes   *)
(* a session found it anonymous and sets an identity.                      *)
C26_RestoreKeepsIdentity ==
  /\ last.op = "RerunHolding" =>
       (last.why = "has_auth" /\ last.kept /\ last.auth \in HeldIdentities)
  /\ last.op = "PageLoadWith" =>
       (~last.kept => (last.why = "ok" /\ last.auth # NoAuth))
  /\ ~last.kept => last.op = "PageLoadWith"

\* the session of a user held a valid token of another user, both users of
\* the data file, and kept its identity
C26_Witness ==
  /\ last.op = "RerunHolding"
  /\ ValidAuthCookie("b1")
  /\ UserExists(minted["b1"].user_id)
  /\ UserExists(last.auth.user_id)
  /\ last.auth.user_id # minted["b1"].user_id
  /\ sess["b1"].auth = last.auth
  /\ last.kept

-----------------------------------------------------------------------------
(* THE LOGIN GATE.                                                         *)

(* The button "ログイン" when the block that issues the cookies raises     *)
(* (os.stat on the data file, the encoding of the token): the exception is *)
(* swallowed, the identity set before it stays, no cookie is written, and  *)
(* st.rerun() follows.                                                     *)
ClickLoginCookieFails(b, u, token_in) ==
  LET s0 == sess[b]
  IN /\ ~s0.rerun
     /\ s0.auth = NoAuth
     /\ dbfile.exists
     /\ ~env.USE_POSTGRES
     /\ TokenOk(token_in)
     /\ u \in dbfile.users
     /\ _cookie_secret_bytes # <<>>
     /\ \E r1 \in {_restore_auth_from_cookie_if_possible(s0)} :
        /\ r1.sess.auth = NoAuth
        /\ sess' = [sess EXCEPT ![b] = [r1.sess EXCEPT !.auth = AuthState(u.id, u.username),
                                                       !.sqlite_restore_done = FALSE,
                                                       !.rerun = TRUE]]
        /\ revoked' = [revoked EXCEPT ![b] = FALSE]
        /\ last' = Ran("LoginNoCookie", b, s0, r1, FALSE)
        /\ UNCHANGED <<now, env, dbfile, jar, minted, codecvars, storevars>>

(* The steps that open, authenticate and end sessions; the writes of the   *)
(* data pages, which touch no session, are left to Spec.                   *)
NextLogin ==
  \/ \E t \in Times : Tick(t)
  \/ \E b \in Active : PageLoad(b)
  \/ \E b \in Active : Rerun(b)
  \/ \E b \in Active, token_in \in {Key, WrongKey} : \E u \in dbfile.users :
       ClickLogin(b, u, token_in)
  \/ \E b \in Active, token_in \in {Key, WrongKey} : \E u \in dbfile.users :
       ClickLoginCookieFails(b, u, token_in)
  \/ \E b \in Active, img \in DbImages, token_in \in {Key, WrongKey} :
       ClickUpload(b, img, token_in)
  \/ \E b \in Active : ClickLogout(b)
  \/ Restart

SpecLogin == Init /\ [][NextLogin]_vars

\* the step is a login of b that passed the gate
ByLogin(b) ==
  /\ last'.op \in {"Login", "LoginNoCookie"}
  /\ last'.b = b
  /\ sess[b].auth = NoAuth
  /\ env.SETUP_TOKEN # <<>>
  /\ dbfile.exists
  /\ ~env.USE_POSTGRES
  /\ \E u \in dbfile.users : sess'[b].auth = AuthState(u.id, u.username)

\* the step ran the restore in a session of b, and the restore set the
\* identity
ByRestore(b) ==
  /\ last'.b = b
  /\ last'.why = "ok"
  /\ last'.auth = sess'[b].auth

\* the step left the session of b and its identity in place
SessionGoesOn(b) ==
  /\ sess'[b].auth = sess[b].auth
  /\ ~(last'.b = b /\ last'.op = "PageLoad")

\* no login goes through with a token other than SETUP_TOKEN
TypedTokenChecked ==
  \A b \in Active, u \in UNION {img.users : img \in DbImages}, token_in \in {Key, WrongKey} :
    (ClickLogin(b, u, token_in) \/ ClickLoginCookieFails(b, u, token_in))
      => (env.SETUP_TOKEN # <<>> /\ token_in = env.SETUP_TOKEN)

(* C27: Login gate.  A session comes to hold an identity only by a login   *)
(* made with SETUP_TOKEN configured and typed, the data file in place,     *)
(* USE_POSTGRES off and a user of the store chosen, or by a restore that   *)
(* succeeded; a login whose cookie could not be issued sets the identity   *)
(* all the same.                                                           *)
C27_LoginGate ==
  [][/\ \A b \in Browsers :
          sess'[b].auth # NoAuth => (SessionGoesOn(b) \/ ByLogin(b) \/ ByRestore(b))
     /\ TypedTokenChecked
     /\ last'.op = "LoginNoCookie" =>
          (sess'[last'.b].auth # NoAuth /\ jar' = jar /\ ByLogin(last'.b))]_vars

\* a login set the identity of a session and left no auth cookie
C27_Witness ==
  /\ last.op = "LoginNoCookie"
  /\ env.SETUP_TOKEN = Key
  /\ sess["b1"].auth = AuthState(2, <<99>>)
  /\ jar["b1"].da_auth = <<>>
  /\ dbfile.exists

-----------------------------------------------------------------------------
(* THE IDENTITY OF A USER THE STORE DOES NOT HOLD, under Spec.             *)

(* C28: Unknown user is logged out.  When a run of main() finds the        *)
(* session with an identity whose user_id the store does not hold,         *)
(* _ensure_user removes the identity, has the auth cookie erased and asks  *)
(* for a rerun in place of the page; a data page writes only for an        *)
(* identity whose user the store holds.                                    *)
C28_UnknownUserLoggedOut ==
  \A b \in Active :
    /\ (/\ last.b = b
        /\ last.op \in {"PageLoad", "Rerun"}
        /\ last.auth # NoAuth
        /\ ~UserExists(last.auth.user_id))
       => /\ last.logout
          /\ sess[b].auth = NoAuth
          /\ jar[b].da_auth = <<>>
          /\ sess[b].rerun
    /\ (last.b = b /\ last.op = "AppWrite")
       => (last.auth # NoAuth /\ UserExists(last.auth.user_id))
    /\ (sess[b].auth # NoAuth /\ ~sess[b].rerun) => UserExists(sess[b].auth.user_id)

\* the restore set the identity of a user that the uploaded data file does
\* not hold, and the run logged it out
C28_Witness ==
  /\ last.op \in {"PageLoad", "Rerun"}
  /\ last.b = "b1"
  /\ last.why = "ok"
  /\ last.auth = AuthState(2, <<99>>)
  /\ dbfile.exists
  /\ ~UserExists(2)
  /\ last.logout
  /\ sess["b1"].auth = NoAuth
  /\ jar["b1"].da_auth = <<>>

====
